---- MODULE Spec2Model ----
(***************************************************************************)
(* Real-time room coordination and host authorization of the sanctuary     *)
(* server: backend/socket/socketHandler.js.                                *)
(*                                                                         *)
(* Every socket.on handler is an action.  A handler that awaits the        *)
(* durable store is split at its awaits: one action per store operation,   *)
(* each containing the synchronous code that runs up to the next await.    *)
(* The locals of a suspended handler are kept in task[c].                  *)
(*                                                                         *)
(* The host's browser, src/hooks/useHostSession.ts, is the second part:    *)
(* the three places the hook keeps the host token in, and the effect that  *)
(* runs when the hook is mounted.                                          *)
(*                                                                         *)
(* The third part is the expert verification route of the admin router,    *)
(* backend/routes/adminRoutes.js, with the way Express dispatches a        *)
(* request to the handlers registered for one path.                        *)
(***************************************************************************)
EXTENDS Integers, Sequences, FiniteSets, TLC

\* ------------------------------------------------------------------ bounds
MaxTime == 1            \* the wall clock runs over 0..MaxTime
SanctuaryExpiry == 1    \* expiresAt of the sanctuary document present at start
MaxJoinRequests == 2    \* join_sanctuary_host requests the server receives
MaxMessages == 2        \* sanctuary_message requests that construct a message
MaxTokenLen == 3        \* characters of a host token the browser handles
MaxMounts == 2          \* times the hook is mounted (page loads)

\* ------------------------------------------------------------- value sets
SocketOrder == <<"k1", "k2">>       \* socket ids, in the order they are handed out
Sockets == {SocketOrder[i] : i \in 1..Len(SocketOrder)}
\* socket.userId = `anonymous_${socket.id}`
AnonIdShared == [k1 |-> "anonymous_", k2 |-> "anonymous_"]

AnonId == [k1 |-> "anonymous_k1", k2 |-> "anonymous_k2"]

Owner == "u1"                       \* the user recorded as hostId of sanctuary s1
Users == {"u1", "u2"}               \* users the User collection holds
NoCred == "no_credential"
BadCred == "bad_credential"         \* fails jwt.verify, or names no user
Credentials == Users \cup {NoCred, BadCred}

\* ids a client may name; only s1 has a document
SanctuaryIds == {"s1", "host_s1"}
SanctuaryDocs == {"s1"}
NoId == "none"

NoToken == "no_token"
NanoOrder == <<"n1", "n2", "n3">>         \* successive results of nanoid(32)
ChosenTokens == {"x1"}              \* a string a client made up

\* room names, as the template literals build them
ChatRoom(id) == "chat_" \o id
SanctuaryRoom(id) == "sanctuary_" \o id
SanctuaryHostRoom(id) == "sanctuary_host_" \o id
AudioRoom(id) == "audio_room_" \o id
ChatIds == {"c1", "c2"}             \* chat session ids a client may name
AudioIds == {"a1"}                  \* audio session ids a client may name
RoomNames ==
    UNION {{ChatRoom(id), SanctuaryRoom(id), SanctuaryHostRoom(id), AudioRoom(id)} :
              id \in SanctuaryIds}
    \cup {ChatRoom(id) : id \in ChatIds}
    \cup {AudioRoom(id) : id \in AudioIds}

\* participant ids a client may name as the target of a directed action
ParticipantIds == {"u1", "u2", "anonymous_k1", "anonymous_k2"}

StoreError == "store operation failed"
AuthFailedMsg == "Host authorization failed"
NotFoundMsg == "Sanctuary session not found or expired"
SendFailedMsg == "Failed to send message"

Earlier == [id |-> 1, participantId |-> "anonymous_k0"]   \* a submission stored before

VARIABLES
    now,            \* wall clock (new Date())
    sock,           \* per socket: lifecycle, identity, current-room references
    rooms,          \* adapter rooms: room name -> set of socket ids
    sanctuaries,    \* SanctuarySession collection
    hostSessions,   \* HostSession collection, in insertion order
    nanoCount,      \* tokens nanoid has produced so far
    msgCount,       \* messages constructed so far (stands for the unique id)
    joinsLeft,      \* join_sanctuary_host requests still to arrive
    msgsLeft,       \* sanctuary_message requests still to construct a message
    task,           \* per socket: locals of its suspended async handler
    out,            \* events emitted by the last step, in emission order
    last,           \* the request the last step completed, with its outcome
    url,            \* browser: the hostToken parameter of window.location.search
    localStorage,   \* browser: storage key -> item
    sessionStorage, \* browser: storage key -> item
    cookies,        \* browser: cookie name -> cookie
    hook,           \* browser: state of the mounted useHostSession hook
    experts,        \* admin: Expert collection
    http,           \* admin: the last request to the admin router and its answer
    grounds,        \* history: sanctuaries for which a socket showed grounds to host
    appended        \* history: the submissions whose save succeeded, in save order

server == <<now, sock, rooms, sanctuaries, hostSessions, nanoCount, msgCount, joinsLeft,
            msgsLeft, task, out, last, grounds, appended>>

browser == <<url, localStorage, sessionStorage, cookies, hook>>

admin == <<experts, http>>

vars == <<server, browser, admin>>

\* ---------------------------------------------------------------- records
NoMsg == [id |-> 0, participantId |-> NoId]
NoSnap == [found |-> FALSE, expiresAt |-> 0, submissions |-> <<>>]
NoDoc == [sanctuaryId |-> NoId, hostToken |-> NoToken, hostId |-> NoId,
          expiresAt |-> 0]

\* locals of a suspended handler; seen, ownerOk, live and wrote are history
\* fields: what the store held when the request consulted it, and whether the
\* request has changed the HostSession collection
IdleTask == [pc |-> "idle", sid |-> NoId, tok |-> NoToken, hs |-> 0,
             doc |-> NoDoc, ss |-> NoSnap, msg |-> NoMsg,
             seen |-> "none", ownerOk |-> FALSE, live |-> FALSE,
             wrote |-> FALSE]

\* target and found: the participant id a directed action names and the socket
\* it resolved to
NoRequest == [op |-> "none", c |-> NoId, sid |-> NoId, tok |-> NoToken,
              seen |-> "none", ownerOk |-> FALSE, live |-> FALSE,
              ss |-> NoSnap, msg |-> NoMsg, result |-> "", token |-> NoToken,
              target |-> NoId, found |-> NoId, wrote |-> FALSE]

NewSocket == [status |-> "new", userId |-> NoId, isAnonymous |-> FALSE,
              currentChatSession |-> NoId, currentSanctuary |-> NoId,
              currentSanctuaryHost |-> NoId, currentAudioRoom |-> NoId,
              hostToken |-> NoToken]

Event(to, ev, sid) ==
    [to |-> to, ev |-> ev, sid |-> sid, from |-> NoId, submission |-> NoMsg,
     count |-> 0, token |-> NoToken, details |-> "", participantId |-> NoId]

\* ---------------------------------------------------------------- helpers
Live(c) == sock[c].status = "live"

IsPrefix(a, b) == /\ Len(a) <= Len(b)
                  /\ \A k \in 1..Len(a) : a[k] = b[k]

RECURSIVE SeqOfSet(_)
SeqOfSet(S) ==
    IF S = {} THEN <<>>
    ELSE LET i == CHOOSE j \in 1..Len(SocketOrder) :
                      /\ SocketOrder[j] \in S
                      /\ \A k \in 1..(j-1) : SocketOrder[k] \notin S
         IN <<SocketOrder[i]>> \o SeqOfSet(S \ {SocketOrder[i]})

Members(room) == rooms[room]

\* socket.emit(ev): delivered when the socket is still connected
EmitTo(c, e) == IF Live(c) THEN <<e>> ELSE <<>>

\* io.to(room).emit(ev): every connected socket of the room
RECURSIVE Deliver(_, _)
Deliver(cs, e) ==
    IF cs = <<>> THEN <<>>
    ELSE (IF Live(Head(cs)) THEN <<[e EXCEPT !.to = Head(cs)]>> ELSE <<>>)
         \o Deliver(Tail(cs), e)

BroadcastAll(room, e) == Deliver(SeqOfSet(Members(room)), e)

\* socket.to(room).emit(ev): the room without the sending socket
BroadcastOthers(c, room, e) == Deliver(SeqOfSet(Members(room) \ {c}), e)

\* expiresAt: { $gt: new Date() }
NotExpiredLoose(expiresAt) == expiresAt >= now

NotExpired(expiresAt) == expiresAt > now

\* ------------------------------------------------------ the durable store
\* the filter of HostSession.findOne({hostToken, sanctuaryId, isActive: true,
\* expiresAt: {$gt: now}}) applied to document i
HostSessionMatchIgnoringActive(t, s, i) ==
    /\ hostSessions[i].hostToken = t
    /\ hostSessions[i].sanctuaryId = s
    /\ NotExpired(hostSessions[i].expiresAt)

HostSessionMatch(t, s, i) ==
    /\ hostSessions[i].hostToken = t
    /\ hostSessions[i].sanctuaryId = s
    /\ hostSessions[i].isActive
    /\ NotExpired(hostSessions[i].expiresAt)

\* findOne: the position of the first matching document, 0 when there is none
HostSessionFindOne(t, s) ==
    IF \E i \in 1..Len(hostSessions) : HostSessionMatch(t, s, i)
    THEN CHOOSE i \in 1..Len(hostSessions) :
             /\ HostSessionMatch(t, s, i)
             /\ \A j \in 1..(i-1) : ~HostSessionMatch(t, s, j)
    ELSE 0

\* the document as loaded into the handler
Snapshot(s) ==
    [found |-> TRUE, expiresAt |-> sanctuaries[s].expiresAt,
     submissions |-> sanctuaries[s].submissions]

\* SanctuarySession.findOne({id, hostId: socket.userId, isActive: true, expiresAt > now})
SanctuaryFindOwned(s, u) ==
    IF /\ s \in SanctuaryDocs
       /\ sanctuaries[s].hostId = u
       /\ sanctuaries[s].isActive
       /\ NotExpired(sanctuaries[s].expiresAt)
    THEN Snapshot(s) ELSE NoSnap

\* SanctuarySession.findOne({id, isActive: true, expiresAt > now})
SanctuaryFindIgnoringActive(s) ==
    IF /\ s \in SanctuaryDocs
       /\ NotExpired(sanctuaries[s].expiresAt)
    THEN Snapshot(s) ELSE NoSnap

SanctuaryFindActive(s) ==
    IF /\ s \in SanctuaryDocs
       /\ sanctuaries[s].isActive
       /\ NotExpired(sanctuaries[s].expiresAt)
    THEN Snapshot(s) ELSE NoSnap

\* hostSession.save() of a new document: the collection keeps hostToken unique
SaveAcceptedNoUnique(doc) == TRUE

SaveAccepted(doc) ==
    \A i \in 1..Len(hostSessions) : hostSessions[i].hostToken # doc.hostToken

\* the stored document: isActive and lastAccessedAt take their defaults
Stored(doc) ==
    [sanctuaryId |-> doc.sanctuaryId, hostToken |-> doc.hostToken,
     hostId |-> doc.hostId, expiresAt |-> doc.expiresAt,
     isActive |-> TRUE, lastAccessedAt |-> now]

\* hostSession.updateAccess(): bump the last-access timestamp of document i
UpdateAccess(i) == [hostSessions EXCEPT ![i].lastAccessedAt = now]

\* ------------------------------------------- what a host join is granted on
HasTokenGrounds(s, t) ==
    /\ t # NoToken
    /\ \E i \in 1..Len(hostSessions) :
          /\ hostSessions[i].sanctuaryId = s
          /\ hostSessions[i].hostToken = t
          /\ hostSessions[i].isActive
          /\ hostSessions[i].expiresAt > now

HasOwnerGrounds(c, s) ==
    /\ ~sock[c].isAnonymous
    /\ s \in SanctuaryDocs
    /\ sanctuaries[s].hostId = sock[c].userId
    /\ sanctuaries[s].isActive
    /\ sanctuaries[s].expiresAt > now

SanctuaryLive(s) ==
    /\ s \in SanctuaryDocs
    /\ sanctuaries[s].isActive
    /\ sanctuaries[s].expiresAt > now

\* the standing of token t for sanctuary s at this moment
TokenStanding(s, t) ==
    IF t = NoToken THEN "none"
    ELSE IF HasTokenGrounds(s, t) THEN "valid"
    ELSE IF \E i \in 1..Len(hostSessions) :
               /\ hostSessions[i].sanctuaryId = s
               /\ hostSessions[i].hostToken = t
               /\ hostSessions[i].expiresAt <= now
    THEN "expired"
    ELSE IF \E i \in 1..Len(hostSessions) :
               /\ hostSessions[i].sanctuaryId = s
               /\ hostSessions[i].hostToken = t
    THEN "revoked"
    ELSE "none"

\* ------------------------------------------ the host's browser: token storage
TokenChars == {"4", "%", ";"}

\* the strings a host token can be: not empty, at most MaxTokenLen characters
HostTokens == UNION {[1..n -> TokenChars] : n \in 1..MaxTokenLen}

\* null and the empty string: the hook only ever tests them for truthiness
Null == <<>>

\* `sanctuary-host-${sanctuaryId}`
StorageKey(id) == "sanctuary-host-" \o id

KeyOrder == <<StorageKey("s1"), StorageKey("host_s1")>>
StorageKeys == {KeyOrder[i] : i \in 1..Len(KeyOrder)}

NoCookie == [present |-> FALSE, value |-> Null]

\* useState<HostSession | null>(null)
NoHostSession == [sanctuaryId |-> NoId, hostToken |-> Null]

NoHook == [pc |-> "unmounted", sanctuaryId |-> NoId, token |-> Null,
           hostSession |-> NoHostSession, error |-> "", isValidating |-> FALSE,
           quota |-> "none", mounts |-> 0]

\* a browser that has never opened the application
FreshBrowser ==
    /\ url = Null
    /\ localStorage = [k \in StorageKeys |-> Null]
    /\ sessionStorage = [k \in StorageKeys |-> Null]
    /\ cookies = [k \in StorageKeys |-> NoCookie]
    /\ hook = NoHook

\* the part of s before the first ch
RECURSIVE UpTo(_, _)
UpTo(s, ch) ==
    IF s = <<>> \/ Head(s) = ch THEN <<>> ELSE <<Head(s)>> \o UpTo(Tail(s), ch)

\* document.cookie = `${key}=${token}; path=/; max-age=86400; SameSite=Strict`:
\* the browser takes as value what stands before the first ';'
CookieAssigned(id, token) ==
    [cookies EXCEPT ![StorageKey(id)] = [present |-> TRUE, value |-> UpTo(token, ";")]]

\* document.cookie = `${key}=; expires=Thu, 01 Jan 1970 00:00:00 UTC; path=/;`
CookieRemoved(id) == [cookies EXCEPT ![StorageKey(id)] = NoCookie]

\* reading document.cookie: the cookies as name=value, joined by "; "
RECURSIVE CookieString(_)
CookieString(keys) ==
    IF keys = <<>> THEN <<>>
    ELSE LET rest == CookieString(Tail(keys))
         IN  IF ~cookies[Head(keys)].present THEN rest
             ELSE <<Head(keys), "=">> \o cookies[Head(keys)].value
                  \o (IF rest = <<>> THEN <<>> ELSE <<";", " ">> \o rest)

DocumentCookie == CookieString(KeyOrder)

\* the character a complete escape %XY stands for: %44 is "D"; on an
\* incomplete escape decodeURIComponent throws URIError
PercentChar == [p \in {<<"4", "4">>} |-> "D"]

Malformed == [ok |-> FALSE, text |-> <<>>]

RECURSIVE DecodeURIComponent(_)
DecodeURIComponent(s) ==
    IF s = <<>> THEN [ok |-> TRUE, text |-> <<>>]
    ELSE IF Head(s) # "%"
    THEN LET r == DecodeURIComponent(Tail(s))
         IN  IF r.ok THEN [ok |-> TRUE, text |-> <<Head(s)>> \o r.text] ELSE Malformed
    ELSE IF Len(s) >= 3 /\ <<s[2], s[3]>> \in DOMAIN PercentChar
    THEN LET r == DecodeURIComponent(SubSeq(s, 4, Len(s)))
         IN  IF r.ok THEN [ok |-> TRUE, text |-> <<PercentChar[<<s[2], s[3]>>]>> \o r.text]
             ELSE Malformed
    ELSE Malformed

\* decodedCookie.split(';')
RECURSIVE Split(_, _)
Split(s, ch) ==
    LET first == UpTo(s, ch)
    IN  IF Len(first) = Len(s) THEN <<first>>
        ELSE <<first>> \o Split(SubSeq(s, Len(first) + 2, Len(s)), ch)

\* while (c.charAt(0) === ' ') c = c.substring(1)
RECURSIVE TrimStart(_)
TrimStart(s) == IF s # <<>> /\ Head(s) = " " THEN TrimStart(Tail(s)) ELSE s

\* the loop over ca: the first part that starts with `${key}=`
RECURSIVE FindCookie(_, _)
FindCookie(ca, key) ==
    IF ca = <<>> THEN Null
    ELSE LET c == TrimStart(Head(ca))
         IN  IF Len(c) >= 2 /\ c[1] = key /\ c[2] = "="
             THEN SubSeq(c, 3, Len(c))
             ELSE FindCookie(Tail(ca), key)

\* getTokenFromCookie
GetTokenFromCookie(id) ==
    LET decodedCookie == DecodeURIComponent(DocumentCookie)
    IN  IF ~decodedCookie.ok THEN [threw |-> TRUE, token |-> Null]
        ELSE [threw |-> FALSE,
              token |-> FindCookie(Split(decodedCookie.text, ";"), StorageKey(id))]

\* getHostToken: tokenFromUrl || tokenFromStorage || tokenFromSession
GetHostToken(id, tokenFromUrl) ==
    IF tokenFromUrl # Null THEN tokenFromUrl
    ELSE IF localStorage[StorageKey(id)] # Null THEN localStorage[StorageKey(id)]
    ELSE sessionStorage[StorageKey(id)]

\* the page is loaded and the effect runs initializeSession up to the fetch of
\* verifyHostToken
InitializeSession(id, param) ==
    /\ hook.pc \notin {"verifying", "refreshing"}
    /\ hook.mounts < MaxMounts
    /\ url' = param
    /\ LET fromCookie == GetTokenFromCookie(id)
           token == IF GetHostToken(id, param) # Null THEN GetHostToken(id, param)
                    ELSE fromCookie.token
           mounted == [NoHook EXCEPT !.sanctuaryId = id, !.mounts = hook.mounts + 1]
       IN  hook' =
             IF GetHostToken(id, param) = Null /\ fromCookie.threw
             THEN [mounted EXCEPT !.pc = "threw", !.isValidating = TRUE]
             ELSE IF token = Null
             THEN [mounted EXCEPT !.pc = "settled", !.error = "No host token found"]
             ELSE [mounted EXCEPT !.pc = "verifying", !.token = token,
                                  !.isValidating = TRUE]
    /\ UNCHANGED <<localStorage, sessionStorage, cookies>>
    /\ UNCHANGED server
    /\ UNCHANGED admin

\* storeHostToken: the two setItem calls and the cookie, inside one try; a
\* setItem that throws (quota) skips what follows
StoreHostToken(id, token, quota) ==
    /\ localStorage' = IF quota = "localStorage" THEN localStorage
                       ELSE [localStorage EXCEPT ![StorageKey(id)] = token]
    /\ sessionStorage' = IF quota # "none" THEN sessionStorage
                         ELSE [sessionStorage EXCEPT ![StorageKey(id)] = token]
    /\ cookies' = IF quota # "none" THEN cookies ELSE CookieAssigned(id, token)

\* the token was not verified: the three copies are removed
ClearStoredTokens(id) ==
    /\ localStorage' = [localStorage EXCEPT ![StorageKey(id)] = Null]
    /\ sessionStorage' = [sessionStorage EXCEPT ![StorageKey(id)] = Null]
    /\ cookies' = CookieRemoved(id)

\* how a verification request can end: the server accepts the token, the server
\* rejects it, or the fetch itself fails
Outcomes == {"success", "invalid", "transport"}

\* error.message in the catch block of verifyHostToken
ErrorOf == [invalid |-> "Invalid host token", transport |-> "Failed to fetch"]

\* sessionData: sanctuaryId and hostToken are taken from the response
SessionData(belongsTo, token) == [sanctuaryId |-> belongsTo, hostToken |-> token]

\* the answer of /api/host-recovery/verify-token arrives, or the fetch fails:
\* verifyHostToken runs to its end and, when initializeSession called it,
\* initializeSession does too; belongsTo is the sanctuary the server found the
\* token in
VerifyHostToken(outcome, belongsTo) ==
    /\ hook.pc \in {"verifying", "refreshing"}
    /\ IF outcome = "success"
       THEN \E quota \in {"none", "localStorage", "sessionStorage"} :
              /\ StoreHostToken(hook.sanctuaryId, hook.token, quota)
              /\ hook' = [hook EXCEPT !.pc = "settled",
                                      !.hostSession = SessionData(belongsTo, hook.token),
                                      !.error = "",
                                      !.isValidating = FALSE, !.quota = quota]
       ELSE /\ IF hook.pc = "verifying"
               THEN ClearStoredTokens(hook.sanctuaryId)
               ELSE UNCHANGED <<localStorage, sessionStorage, cookies>>
            /\ hook' = [hook EXCEPT !.pc = "settled", !.error = ErrorOf[outcome],
                                    !.isValidating = FALSE]
    /\ UNCHANGED url
    /\ UNCHANGED server
    /\ UNCHANGED admin

\* refreshSession: if (hostSession) verifyHostToken(hostSession.hostToken)
RefreshSession ==
    /\ hook.pc = "settled"
    /\ hook.hostSession # NoHostSession
    /\ hook' = [hook EXCEPT !.pc = "refreshing", !.token = hook.hostSession.hostToken]
    /\ UNCHANGED <<url, localStorage, sessionStorage, cookies>>
    /\ UNCHANGED server
    /\ UNCHANGED admin

\* isHost: !!hostSession
IsHost == hook.hostSession # NoHostSession

\* the tab is closed: its sessionStorage is gone
CloseTab ==
    /\ hook.pc \in {"settled", "threw"}
    /\ sessionStorage' = [k \in StorageKeys |-> Null]
    /\ hook' = [NoHook EXCEPT !.mounts = hook.mounts]
    /\ url' = Null
    /\ UNCHANGED <<localStorage, cookies>>
    /\ UNCHANGED server
    /\ UNCHANGED admin

\* max-age of a cookie runs out
CookieExpires(k) ==
    /\ cookies[k].present
    /\ cookies' = [cookies EXCEPT ![k] = NoCookie]
    /\ UNCHANGED <<url, localStorage, sessionStorage, hook>>
    /\ UNCHANGED server
    /\ UNCHANGED admin

\* ------------------------------------ admin router: expert verification
Admins == {"admin1", "admin2"}      \* req.user.id after the two middlewares
ExpertIds == {"e1", "e2"}           \* ids a request may name; only e1 has a document
ExpertDocs == {"e1"}
NoTime == -1                        \* null for a date

\* const { verificationLevel, status, feedback } = req.body; "" is an absent field
Bodies == [verificationLevel : {"", "blue", "gold"},
           status : {"", "approved", "rejected"},
           feedback : {"", "documents checked"}]

PendingDocument == [status |-> "pending", reviewedAt |-> NoTime, reviewedBy |-> NoId]

\* an expert who has submitted two documents and awaits review
NewExpert ==
    [verificationLevel |-> "", verified |-> FALSE, accountStatus |-> "pending",
     verificationFeedback |-> "", verifiedAt |-> NoTime, verifiedBy |-> NoId,
     verificationDocuments |-> <<PendingDocument, PendingDocument>>]

NoExchange == [handler |-> "none", admin |-> NoId, id |-> NoId,
               body |-> [verificationLevel |-> "", status |-> "", feedback |-> ""],
               code |-> 0]

FreshAdmin ==
    /\ experts = [e \in ExpertDocs |-> NewExpert]
    /\ http = NoExchange

\* what a handler leaves behind: the collection, the status code of its
\* answer, and whether it passed the request on with next()
Answer(collection, code) == [experts |-> collection, code |-> code, next |-> FALSE]

\* the first handler registered for PATCH /experts/:id/verify; saved is whether
\* expert.save() succeeds
VerifyExpert(req, saved) ==
    IF req.body.verificationLevel = "" \/ req.body.status = ""
    THEN Answer(experts, 400)
    ELSE IF req.id \notin ExpertDocs
    THEN Answer(experts, 404)
    ELSE IF ~saved
    THEN Answer(experts, 500)
    ELSE LET expert == experts[req.id]
             docs == expert.verificationDocuments
         IN  Answer([experts EXCEPT ![req.id] =
                        [expert EXCEPT
                            !.verificationLevel = req.body.verificationLevel,
                            !.verified = (req.body.status = "approved"),
                            !.accountStatus = req.body.status,
                            !.verificationDocuments =
                                [k \in DOMAIN docs |->
                                    [docs[k] EXCEPT !.status = req.body.status]]]],
                    200)

\* the second handler registered for the same method and path
VerifyExpertEnhanced(req, saved) ==
    IF req.body.verificationLevel = "" \/ req.body.status = ""
    THEN Answer(experts, 400)
    ELSE IF req.id \notin ExpertDocs
    THEN Answer(experts, 404)
    ELSE IF ~saved
    THEN Answer(experts, 500)
    ELSE LET expert == experts[req.id]
             docs == expert.verificationDocuments
         IN  Answer([experts EXCEPT ![req.id] =
                        [expert EXCEPT
                            !.verificationLevel = req.body.verificationLevel,
                            !.verified = (req.body.status = "approved"),
                            !.accountStatus = req.body.status,
                            !.verificationFeedback = req.body.feedback,
                            !.verifiedAt = IF req.body.status = "approved"
                                           THEN now ELSE NoTime,
                            !.verifiedBy = req.admin,
                            !.verificationDocuments =
                                [k \in DOMAIN docs |->
                                    [docs[k] EXCEPT !.status = req.body.status,
                                                    !.reviewedAt = now,
                                                    !.reviewedBy = req.admin]]]],
                    200)

\* the router's stack for PATCH /experts/:id/verify, in registration order
VerifyRoute == <<"verify", "verifyEnhanced">>

Handle(h, req, saved) ==
    IF h = "verify" THEN VerifyExpert(req, saved) ELSE VerifyExpertEnhanced(req, saved)

\* Express runs the matching layers in registration order and moves to the next
\* one only when a handler calls next(); a request no layer answers gets 404
RECURSIVE Dispatch(_, _, _)
Dispatch(route, req, saved) ==
    IF route = <<>>
    THEN [experts |-> experts, code |-> 404, handler |-> "none"]
    ELSE LET r == Handle(Head(route), req, saved)
         IN  IF r.next THEN Dispatch(Tail(route), req, saved)
             ELSE [experts |-> r.experts, code |-> r.code, handler |-> Head(route)]

\* PATCH /api/admin/experts/:id/verify from an admin.  Each handler overwrites
\* the same fields of the document whatever it read, so requests that overlap
\* between findOne and save end as the same requests in the order of their saves
PatchExpertVerify(a, id, body) ==
    /\ \E saved \in BOOLEAN :
         LET r == Dispatch(VerifyRoute, [admin |-> a, id |-> id, body |-> body], saved)
         IN  /\ experts' = r.experts
             /\ http' = [handler |-> r.handler, admin |-> a, id |-> id,
                         body |-> body, code |-> r.code]
    /\ UNCHANGED server
    /\ UNCHANGED browser

\* ------------------------------------------------------------------ start
Start(joins, msgs, subs) ==
    /\ joinsLeft = joins
    /\ msgsLeft = msgs
    /\ now = 0
    /\ sock = [c \in Sockets |-> NewSocket]
    /\ rooms = [r \in RoomNames |-> {}]
    /\ sanctuaries = [s \in SanctuaryDocs |->
                        [hostId |-> Owner, isActive |-> TRUE,
                         expiresAt |-> SanctuaryExpiry, submissions |-> subs]]
    /\ hostSessions = <<>>
    /\ nanoCount = 0
    /\ msgCount = Len(subs)
    /\ task = [c \in Sockets |-> IdleTask]
    /\ out = <<>>
    /\ last = NoRequest
    /\ grounds = [c \in Sockets |-> {}]
    /\ appended = subs
    /\ FreshBrowser
    /\ FreshAdmin

Quiet == /\ out' = <<>>
         /\ last' = NoRequest

\* ----------------------------------------------------- environment steps
Tick ==
    /\ now < MaxTime
    /\ now' = now + 1
    /\ Quiet
    /\ UNCHANGED browser
    /\ UNCHANGED admin
    /\ UNCHANGED <<sock, rooms, sanctuaries, hostSessions, nanoCount, msgCount,
                   joinsLeft, msgsLeft, task, grounds, appended>>

\* an administrative action clears isActive of a HostSession
AdminRevoke(i) ==
    /\ i \in 1..Len(hostSessions)
    /\ hostSessions[i].isActive
    /\ hostSessions' = [hostSessions EXCEPT ![i].isActive = FALSE]
    /\ Quiet
    /\ UNCHANGED browser
    /\ UNCHANGED admin
    /\ UNCHANGED <<now, sock, rooms, sanctuaries, nanoCount, msgCount, joinsLeft,
                   msgsLeft, task, grounds, appended>>

\* the sanctuary is ended from outside: isActive is cleared
EndSanctuary(s) ==
    /\ s \in SanctuaryDocs
    /\ sanctuaries[s].isActive
    /\ sanctuaries' = [sanctuaries EXCEPT ![s].isActive = FALSE]
    /\ Quiet
    /\ UNCHANGED browser
    /\ UNCHANGED admin
    /\ UNCHANGED <<now, sock, rooms, hostSessions, nanoCount, msgCount, joinsLeft,
                   msgsLeft, task, grounds, appended>>

\* --------------------------------------------------- connection gateway
NextSocket(c) ==
    \E i \in 1..Len(SocketOrder) :
        /\ SocketOrder[i] = c
        /\ sock[c].status = "new"
        /\ \A j \in 1..(i-1) : sock[SocketOrder[j]].status # "new"

\* io.use middleware
ConnectLenient(c, cred) ==
    /\ NextSocket(c)
    /\ sock' = [sock EXCEPT ![c] =
                  IF cred \in Users
                  THEN [@ EXCEPT !.status = "live", !.userId = cred,
                                 !.isAnonymous = FALSE]
                  ELSE [@ EXCEPT !.status = "live", !.userId = AnonId[c],
                                 !.isAnonymous = TRUE]]
    /\ Quiet
    /\ UNCHANGED browser
    /\ UNCHANGED admin
    /\ UNCHANGED <<now, rooms, sanctuaries, hostSessions, nanoCount, msgCount,
                   joinsLeft, msgsLeft, task, grounds, appended>>

Connect(c, cred) ==
    /\ NextSocket(c)
    /\ sock' = [sock EXCEPT ![c] =
                  IF cred = NoCred
                  THEN [@ EXCEPT !.status = "live", !.userId = AnonId[c],
                                 !.isAnonymous = TRUE]
                  ELSE IF cred \in Users
                  THEN [@ EXCEPT !.status = "live", !.userId = cred,
                                 !.isAnonymous = FALSE]
                  ELSE [@ EXCEPT !.status = "rejected"]]
    /\ Quiet
    /\ UNCHANGED browser
    /\ UNCHANGED admin
    /\ UNCHANGED <<now, rooms, sanctuaries, hostSessions, nanoCount, msgCount,
                   joinsLeft, msgsLeft, task, grounds, appended>>

Left(c, ev, id) == [Event(c, ev, id) EXCEPT !.from = sock[c].userId]

\* the 'disconnect' handler
LeftEvents(c) ==
    (IF sock[c].currentChatSession # NoId
     THEN BroadcastOthers(c, ChatRoom(sock[c].currentChatSession),
                          Left(c, "user_left", sock[c].currentChatSession))
     ELSE <<>>)
    \o
    (IF sock[c].currentSanctuary # NoId
     THEN BroadcastOthers(c, SanctuaryRoom(sock[c].currentSanctuary),
                          Left(c, "participant_left", sock[c].currentSanctuary))
     ELSE <<>>)
    \o
    (IF sock[c].currentAudioRoom # NoId
     THEN BroadcastOthers(c, AudioRoom(sock[c].currentAudioRoom),
                          Left(c, "audio_participant_left", sock[c].currentAudioRoom))
     ELSE <<>>)

\* transport teardown: the socket leaves every room, then 'disconnect' runs
Disconnect(c) ==
    /\ Live(c)
    /\ rooms' = [r \in RoomNames |-> rooms[r] \ {c}]
    /\ sock' = [sock EXCEPT ![c].status = "closed"]
    /\ out' = LeftEvents(c)
    /\ last' = [NoRequest EXCEPT !.op = "disconnect", !.c = c]
    /\ UNCHANGED browser
    /\ UNCHANGED admin
    /\ UNCHANGED <<now, sanctuaries, hostSessions, nanoCount, msgCount, joinsLeft,
                   msgsLeft, task, grounds, appended>>

\* ------------------------------------------------ room membership manager
JoinSanctuaryAdopting(c, s) ==
    /\ Live(c)
    /\ rooms' = [rooms EXCEPT ![SanctuaryRoom(s)] = @ \cup {c}]
    /\ sock' = [sock EXCEPT ![c].currentSanctuary = s, ![c].isAnonymous = TRUE]
    /\ out' = BroadcastOthers(c, SanctuaryRoom(s),
                  [Event(c, "participant_joined", s) EXCEPT !.from = sock[c].userId])
    /\ last' = [NoRequest EXCEPT !.op = "join_sanctuary", !.c = c, !.sid = s]
    /\ UNCHANGED browser
    /\ UNCHANGED admin
    /\ UNCHANGED <<now, sanctuaries, hostSessions, nanoCount, msgCount, joinsLeft,
                   msgsLeft, task, grounds, appended>>

JoinSanctuary(c, s) ==
    /\ Live(c)
    /\ rooms' = [rooms EXCEPT ![SanctuaryRoom(s)] = @ \cup {c}]
    /\ sock' = [sock EXCEPT ![c].currentSanctuary = s]
    /\ out' = BroadcastOthers(c, SanctuaryRoom(s),
                  [Event(c, "participant_joined", s) EXCEPT !.from = sock[c].userId])
    /\ last' = [NoRequest EXCEPT !.op = "join_sanctuary", !.c = c, !.sid = s]
    /\ UNCHANGED browser
    /\ UNCHANGED admin
    /\ UNCHANGED <<now, sanctuaries, hostSessions, nanoCount, msgCount, joinsLeft,
                   msgsLeft, task, grounds, appended>>

\* join_chat: socket.join never leaves the room joined before
JoinChat(c, id) ==
    /\ Live(c)
    /\ rooms' = [rooms EXCEPT ![ChatRoom(id)] = @ \cup {c}]
    /\ sock' = [sock EXCEPT ![c].currentChatSession = id]
    /\ out' = BroadcastOthers(c, ChatRoom(id),
                  [Event(c, "user_joined", id) EXCEPT !.from = sock[c].userId])
    /\ last' = [NoRequest EXCEPT !.op = "join_chat", !.c = c, !.sid = id]
    /\ UNCHANGED browser
    /\ UNCHANGED admin
    /\ UNCHANGED <<now, sanctuaries, hostSessions, nanoCount, msgCount, joinsLeft,
                   msgsLeft, task, grounds, appended>>

\* send_message: the message object, numbered in the order of processing
ChatMessage(c) == [id |-> msgCount + 1, participantId |-> sock[c].userId]

NewChatMessage(c, id) ==
    [Event(c, "new_message", id) EXCEPT !.from = sock[c].userId,
                                        !.submission = ChatMessage(c)]

\* io.to(chat_<sessionId>).emit('new_message', message)
SendMessageOutOthers(c, id) ==
    BroadcastOthers(c, ChatRoom(id), NewChatMessage(c, id))

SendMessageOut(c, id) == BroadcastAll(ChatRoom(id), NewChatMessage(c, id))

\* send_message: built and broadcast in one run of the handler; nothing is
\* stored and the sender need not be a member
SendMessage(c, id) ==
    /\ Live(c)
    /\ msgsLeft > 0
    /\ msgsLeft' = msgsLeft - 1
    /\ msgCount' = msgCount + 1
    /\ out' = SendMessageOut(c, id)
    /\ last' = [NoRequest EXCEPT !.op = "send_message", !.c = c, !.sid = id,
                                 !.msg = ChatMessage(c), !.result = "sent"]
    /\ UNCHANGED browser
    /\ UNCHANGED admin
    /\ UNCHANGED <<now, sock, rooms, sanctuaries, hostSessions, nanoCount,
                   joinsLeft, task, grounds, appended>>

JoinAudioRoom(c, id) ==
    /\ Live(c)
    /\ rooms' = [rooms EXCEPT ![AudioRoom(id)] = @ \cup {c}]
    /\ sock' = [sock EXCEPT ![c].currentAudioRoom = id]
    /\ out' = BroadcastOthers(c, AudioRoom(id),
                  [Event(c, "audio_participant_joined", id)
                      EXCEPT !.from = sock[c].userId])
    /\ last' = [NoRequest EXCEPT !.op = "join_audio_room", !.c = c, !.sid = id]
    /\ UNCHANGED browser
    /\ UNCHANGED admin
    /\ UNCHANGED <<now, sanctuaries, hostSessions, nanoCount, msgCount, joinsLeft,
                   msgsLeft, task, grounds, appended>>

\* ------------------------------------------------ moderation action router
\* Array.from(io.sockets.sockets.values()).find(s => s.userId === participantId):
\* the first connected socket, in connection order, with that identity
FindSocketAnyStatus(pid) ==
    IF \E i \in 1..Len(SocketOrder) :
          /\ sock[SocketOrder[i]].status \in {"live", "closed"}
          /\ sock[SocketOrder[i]].userId = pid
    THEN SocketOrder[CHOOSE i \in 1..Len(SocketOrder) :
             /\ sock[SocketOrder[i]].status \in {"live", "closed"}
             /\ sock[SocketOrder[i]].userId = pid
             /\ \A j \in 1..(i-1) :
                   ~(/\ sock[SocketOrder[j]].status \in {"live", "closed"}
                     /\ sock[SocketOrder[j]].userId = pid)]
    ELSE NoId

FindSocket(pid) ==
    IF \E i \in 1..Len(SocketOrder) :
          Live(SocketOrder[i]) /\ sock[SocketOrder[i]].userId = pid
    THEN SocketOrder[CHOOSE i \in 1..Len(SocketOrder) :
             /\ Live(SocketOrder[i]) /\ sock[SocketOrder[i]].userId = pid
             /\ \A j \in 1..(i-1) :
                   ~(Live(SocketOrder[j]) /\ sock[SocketOrder[j]].userId = pid)]
    ELSE NoId

\* the notification sent to the target socket
Direct(c, t, ev, sid) == [Event(t, ev, sid) EXCEPT !.from = sock[c].userId]

\* the notification sent to the audio room
RoomWide(c, ev, sid, pid) ==
    [Event(c, ev, sid) EXCEPT !.from = sock[c].userId, !.participantId = pid]

Directed(c, op, sid, pid) ==
    [NoRequest EXCEPT !.op = op, !.c = c, !.sid = sid, !.target = pid,
                      !.found = FindSocket(pid)]

PromoteToSpeaker(c, sid, pid) ==
    /\ Live(c)
    /\ LET t == FindSocket(pid)
       IN  out' = IF t = NoId THEN <<>>
                  ELSE EmitTo(t, Direct(c, t, "promoted_to_speaker", sid))
                       \o BroadcastAll(AudioRoom(sid),
                                       RoomWide(c, "speaker_promoted", sid, pid))
    /\ last' = Directed(c, "promote_to_speaker", sid, pid)
    /\ UNCHANGED browser
    /\ UNCHANGED admin
    /\ UNCHANGED <<now, sock, rooms, sanctuaries, hostSessions, nanoCount, msgCount,
                   joinsLeft, msgsLeft, task, grounds, appended>>

MuteParticipant(c, sid, pid) ==
    /\ Live(c)
    /\ LET t == FindSocket(pid)
       IN  out' = IF t = NoId THEN <<>>
                  ELSE EmitTo(t, Direct(c, t, "force_muted", sid))
                       \o BroadcastAll(AudioRoom(sid),
                                       RoomWide(c, "participant_muted", sid, pid))
    /\ last' = Directed(c, "mute_participant", sid, pid)
    /\ UNCHANGED browser
    /\ UNCHANGED admin
    /\ UNCHANGED <<now, sock, rooms, sanctuaries, hostSessions, nanoCount, msgCount,
                   joinsLeft, msgsLeft, task, grounds, appended>>

\* targetSocket.leave(`audio_room_${sessionId}`)
KickNoLeave(sid, t) == rooms

KickLeave(sid, t) == [rooms EXCEPT ![AudioRoom(sid)] = @ \ {t}]

\* socket.to(room).emit('participant_kicked') after the target has left: the
\* room without the target and without the actor
KickedOut(c, sid, pid, t) ==
    Deliver(SeqOfSet(KickLeave(sid, t)[AudioRoom(sid)] \ {c}),
            RoomWide(c, "participant_kicked", sid, pid))

KickParticipant(c, sid, pid) ==
    /\ Live(c)
    /\ LET t == FindSocket(pid)
       IN  IF t = NoId
           THEN /\ out' = <<>>
                /\ UNCHANGED rooms
           ELSE /\ out' = EmitTo(t, Direct(c, t, "kicked_from_room", sid))
                          \o KickedOut(c, sid, pid, t)
                /\ rooms' = KickLeave(sid, t)
    /\ last' = Directed(c, "kick_participant", sid, pid)
    /\ UNCHANGED browser
    /\ UNCHANGED admin
    /\ UNCHANGED <<now, sock, sanctuaries, hostSessions, nanoCount, msgCount,
                   joinsLeft, msgsLeft, task, grounds, appended>>

RequestVoiceChat(c, sid, pid) ==
    /\ Live(c)
    /\ LET t == FindSocket(pid)
       IN  out' = IF t = NoId THEN <<>>
                  ELSE EmitTo(t, Direct(c, t, "voice_chat_request", sid))
    /\ last' = Directed(c, "request_voice_chat", sid, pid)
    /\ UNCHANGED browser
    /\ UNCHANGED admin
    /\ UNCHANGED <<now, sock, rooms, sanctuaries, hostSessions, nanoCount, msgCount,
                   joinsLeft, msgsLeft, task, grounds, appended>>

VoiceChatResponse(c, sid, pid, accepted) ==
    /\ Live(c)
    /\ LET t == FindSocket(pid)
       IN  out' = IF t = NoId THEN <<>>
                  ELSE EmitTo(t, [Direct(c, t, "voice_chat_response", sid)
                                    EXCEPT !.details = IF accepted THEN "accepted"
                                                       ELSE "declined"])
    /\ last' = Directed(c, "voice_chat_response", sid, pid)
    /\ UNCHANGED browser
    /\ UNCHANGED admin
    /\ UNCHANGED <<now, sock, rooms, sanctuaries, hostSessions, nanoCount, msgCount,
                   joinsLeft, msgsLeft, task, grounds, appended>>

\* ------------------------------------------------- host session authority
Completed(c, op, result) ==
    [op |-> op, c |-> c, sid |-> task[c].sid, tok |-> task[c].tok,
     seen |-> task[c].seen, ownerOk |-> task[c].ownerOk, live |-> task[c].live,
     ss |-> task[c].ss, msg |-> task[c].msg, result |-> result, token |-> NoToken,
     target |-> NoId, found |-> NoId, wrote |-> task[c].wrote]

AuthFailedNoId(c, s, details) ==
    [Event(c, "sanctuary_host_auth_failed", NoId) EXCEPT !.details = details]

AuthFailed(c, s, details) ==
    [Event(c, "sanctuary_host_auth_failed", s) EXCEPT !.details = details]

\* catch (error): emit sanctuary_host_auth_failed to the requester
JoinHostFail(c, details) ==
    /\ out' = EmitTo(c, AuthFailed(c, task[c].sid, details))
    /\ last' = Completed(c, "join_sanctuary_host", details)
    /\ task' = [task EXCEPT ![c] = IdleTask]

\* join_sanctuary_host arrives; with a token, HostSession.findOne runs
JoinHostStart(c, s, t) ==
    /\ Live(c)
    /\ task[c].pc = "idle"
    /\ joinsLeft > 0
    /\ joinsLeft' = joinsLeft - 1
    /\ grounds' = [grounds EXCEPT ![c] =
                     IF HasTokenGrounds(s, t) THEN @ \cup {s} ELSE @]
    /\ LET i == IF t # NoToken THEN HostSessionFindOne(t, s) ELSE 0
           started == [IdleTask EXCEPT !.sid = s, !.tok = t,
                                       !.seen = TokenStanding(s, t)]
       IN  IF i # 0
           THEN /\ task' = [task EXCEPT ![c] = [started EXCEPT !.pc = "jsh_access",
                                                              !.hs = i]]
                /\ Quiet
           ELSE IF ~sock[c].isAnonymous
           THEN /\ task' = [task EXCEPT ![c] = [started EXCEPT !.pc = "jsh_owner"]]
                /\ Quiet
           ELSE /\ out' = EmitTo(c, AuthFailed(c, s, AuthFailedMsg))
                /\ last' = [NoRequest EXCEPT !.op = "join_sanctuary_host", !.c = c,
                               !.sid = s, !.tok = t, !.seen = TokenStanding(s, t),
                               !.result = AuthFailedMsg]
                /\ task' = task
    /\ UNCHANGED browser
    /\ UNCHANGED admin
    /\ UNCHANGED <<now, sock, rooms, sanctuaries, hostSessions, nanoCount, msgCount,
                   msgsLeft, appended>>

\* new HostSession({sanctuaryId, hostToken: hostToken || nanoid(32), hostId,
\* hostIp, userAgent, expiresAt: sanctuarySession.expiresAt})
NewHostSession(c, ss) ==
    [sanctuaryId |-> task[c].sid,
     hostToken |-> IF task[c].tok # NoToken THEN task[c].tok
                   ELSE NanoOrder[nanoCount + 1],
     hostId |-> sock[c].userId,
     expiresAt |-> ss.expiresAt]

\* the authenticated caller's SanctuarySession.findOne, then new HostSession
JoinHostOwner(c) ==
    /\ task[c].pc = "jsh_owner"
    /\ grounds' = [grounds EXCEPT ![c] =
                     IF HasOwnerGrounds(c, task[c].sid) THEN @ \cup {task[c].sid} ELSE @]
    /\ LET ss == SanctuaryFindOwned(task[c].sid, sock[c].userId)
       IN  IF ss.found
           THEN /\ task[c].tok = NoToken => nanoCount < Len(NanoOrder)
                /\ task' = [task EXCEPT ![c].pc = "jsh_save", ![c].ss = ss,
                              ![c].doc = NewHostSession(c, ss),
                              ![c].ownerOk = HasOwnerGrounds(c, task[c].sid)]
                /\ nanoCount' = IF task[c].tok # NoToken
                                THEN nanoCount ELSE nanoCount + 1
                /\ Quiet
           ELSE /\ JoinHostFail(c, AuthFailedMsg)
                /\ UNCHANGED nanoCount
    /\ UNCHANGED browser
    /\ UNCHANGED admin
    /\ UNCHANGED <<now, sock, rooms, sanctuaries, hostSessions, msgCount, joinsLeft,
                   msgsLeft, appended>>

\* await hostSession.save()
JoinHostSave(c) ==
    /\ task[c].pc = "jsh_save"
    /\ \E ok \in BOOLEAN :
         IF ok /\ SaveAccepted(task[c].doc)
         THEN /\ hostSessions' = Append(hostSessions, Stored(task[c].doc))
              /\ task' = [task EXCEPT ![c].pc = "jsh_access",
                                       ![c].hs = Len(hostSessions) + 1,
                                       ![c].wrote = TRUE]
              /\ Quiet
         ELSE /\ JoinHostFail(c, StoreError)
              /\ UNCHANGED hostSessions
    /\ UNCHANGED browser
    /\ UNCHANGED admin
    /\ UNCHANGED <<now, sock, rooms, sanctuaries, nanoCount, msgCount, joinsLeft,
                   msgsLeft, grounds, appended>>

\* submissionsCount: sanctuarySession.submissions?.length || 0
SubmissionsCountZero(ss) == 0

SubmissionsCount(ss) == Len(ss.submissions)

Joined(c, s, ss, token) ==
    [Event(c, "sanctuary_host_joined", s)
        EXCEPT !.count = SubmissionsCount(ss), !.token = token]

\* socket.join(sanctuary_host_<id>) and the sanctuary_host_joined snapshot
JoinHostComplete(c, ss) ==
    /\ rooms' = [rooms EXCEPT ![SanctuaryHostRoom(task[c].sid)] = @ \cup {c}]
    /\ sock' = [sock EXCEPT ![c].currentSanctuaryHost = task[c].sid,
                            ![c].hostToken = hostSessions[task[c].hs].hostToken]
    /\ out' = EmitTo(c, Joined(c, task[c].sid, ss, hostSessions[task[c].hs].hostToken))
    /\ last' = [Completed(c, "join_sanctuary_host", "joined")
                   EXCEPT !.ss = ss, !.token = hostSessions[task[c].hs].hostToken]
    /\ task' = [task EXCEPT ![c] = IdleTask]

\* await hostSession.updateAccess(); the owner path already holds the sanctuary
JoinHostAccess(c) ==
    /\ task[c].pc = "jsh_access"
    /\ \E ok \in BOOLEAN :
         IF ~ok
         THEN /\ JoinHostFail(c, StoreError)
              /\ UNCHANGED <<hostSessions, rooms, sock>>
         ELSE /\ hostSessions' = UpdateAccess(task[c].hs)
              /\ IF task[c].ss.found
                 THEN JoinHostComplete(c, task[c].ss)
                 ELSE /\ task' = [task EXCEPT ![c].pc = "jsh_sanctuary",
                                       ![c].wrote = @ \/ hostSessions' # hostSessions]
                      /\ Quiet
                      /\ UNCHANGED <<rooms, sock>>
    /\ UNCHANGED browser
    /\ UNCHANGED admin
    /\ UNCHANGED <<now, sanctuaries, nanoCount, msgCount, joinsLeft, msgsLeft,
                   grounds, appended>>

\* the token path loads the sanctuary last
JoinHostSanctuary(c) ==
    /\ task[c].pc = "jsh_sanctuary"
    /\ LET ss == SanctuaryFindActive(task[c].sid)
       IN  IF ss.found
           THEN JoinHostComplete(c, ss)
           ELSE /\ JoinHostFail(c, NotFoundMsg)
                /\ UNCHANGED <<rooms, sock>>
    /\ UNCHANGED browser
    /\ UNCHANGED admin
    /\ UNCHANGED <<now, sanctuaries, hostSessions, nanoCount, msgCount, joinsLeft,
                   msgsLeft, grounds, appended>>

\* ------------------------------------------- submission persistence bridge
\* socket.emit('sanctuary_error', {error}): the payload names no sanctuary
SanctuaryError(c, details) ==
    [Event(c, "sanctuary_error", NoId) EXCEPT !.details = details]

\* sanctuary_message arrives: SanctuarySession.findOne, then the message is
\* constructed and pushed onto the loaded document
SanctuaryMessageStart(c, s) ==
    /\ Live(c)
    /\ task[c].pc = "idle"
    /\ LET ss == SanctuaryFindActive(s)
           msg == [id |-> msgCount + 1, participantId |-> sock[c].userId]
       IN  IF ~ss.found
           THEN /\ out' = EmitTo(c, SanctuaryError(c, NotFoundMsg))
                /\ last' = [NoRequest EXCEPT !.op = "sanctuary_message", !.c = c,
                               !.sid = s, !.live = SanctuaryLive(s),
                               !.result = NotFoundMsg]
                /\ UNCHANGED <<task, msgCount, msgsLeft>>
           ELSE /\ msgsLeft > 0
                /\ msgsLeft' = msgsLeft - 1
                /\ msgCount' = msgCount + 1
                /\ task' = [task EXCEPT ![c] =
                              [IdleTask EXCEPT !.pc = "msg_save", !.sid = s,
                                  !.msg = msg, !.live = SanctuaryLive(s),
                                  !.ss = [ss EXCEPT !.submissions = Append(@, msg)]]]
                /\ Quiet
    /\ UNCHANGED browser
    /\ UNCHANGED admin
    /\ UNCHANGED <<now, sock, rooms, sanctuaries, hostSessions, nanoCount, joinsLeft,
                   grounds, appended>>

\* sanctuarySession.save() after submissions.push(message): the pushed element
\* is appended to the stored array
SaveOverwriting(c) == task[c].ss.submissions

SaveSubmissions(c) == Append(sanctuaries[task[c].sid].submissions, task[c].msg)

NewMessage(c) ==
    [Event(c, "sanctuary_new_message", task[c].sid) EXCEPT !.submission = task[c].msg]

NewSubmission(c) ==
    [Event(c, "sanctuary_new_submission", task[c].sid)
        EXCEPT !.submission = task[c].msg, !.count = Len(task[c].ss.submissions)]

\* the broadcasts as they would be with a HostSession lookup per recipient
SavedOutActiveHostsOnly(c) ==
    BroadcastAll(SanctuaryRoom(task[c].sid), NewMessage(c))
    \o Deliver(SeqOfSet({d \in Members(SanctuaryHostRoom(task[c].sid)) :
                            \E i \in 1..Len(hostSessions) :
                                HostSessionMatch(sock[d].hostToken, task[c].sid, i)}),
               NewSubmission(c))

\* the two broadcasts that follow the save
SavedOutPublicOnly(c) == BroadcastAll(SanctuaryRoom(task[c].sid), NewMessage(c))

SavedOut(c) ==
    BroadcastAll(SanctuaryRoom(task[c].sid), NewMessage(c))
    \o BroadcastAll(SanctuaryHostRoom(task[c].sid), NewSubmission(c))

\* catch (error): the save threw, so the broadcasts were never reached
SaveFailedOutAfterBroadcast(c) ==
    SavedOut(c) \o EmitTo(c, SanctuaryError(c, SendFailedMsg))

SaveFailedOut(c) == EmitTo(c, SanctuaryError(c, SendFailedMsg))

\* await sanctuarySession.save(): the store applies the write, or rejects it
\* and the catch block runs; the handler resumes after a successful write only
\* when the store's reply has come back
SanctuaryMessageSave(c) ==
    /\ task[c].pc = "msg_save"
    /\ \E ok \in BOOLEAN :
         IF ok
         THEN /\ sanctuaries' = [sanctuaries EXCEPT
                                   ![task[c].sid].submissions = SaveSubmissions(c)]
              /\ appended' = Append(appended, task[c].msg)
              /\ task' = [task EXCEPT ![c].pc = "msg_saved"]
              /\ Quiet
         ELSE /\ out' = SaveFailedOut(c)
              /\ last' = Completed(c, "sanctuary_message", SendFailedMsg)
              /\ task' = [task EXCEPT ![c] = IdleTask]
              /\ UNCHANGED <<sanctuaries, appended>>
    /\ UNCHANGED browser
    /\ UNCHANGED admin
    /\ UNCHANGED <<now, sock, rooms, hostSessions, nanoCount, msgCount, joinsLeft,
                   msgsLeft, grounds>>

\* the handler resumes after the save and makes the two broadcasts
SanctuaryMessageBroadcast(c) ==
    /\ task[c].pc = "msg_saved"
    /\ out' = SavedOut(c)
    /\ last' = Completed(c, "sanctuary_message", "saved")
    /\ task' = [task EXCEPT ![c] = IdleTask]
    /\ UNCHANGED browser
    /\ UNCHANGED admin
    /\ UNCHANGED <<now, sock, rooms, sanctuaries, hostSessions, nanoCount, msgCount,
                   joinsLeft, msgsLeft, grounds, appended>>

\* ------------------------------------------------ client signals to rooms
\* the payload of a relayed signal names the sending identity
Signal(c, ev, id, details) ==
    [Event(c, ev, id) EXCEPT !.from = sock[c].userId, !.details = details]

\* typing_start / typing_stop: socket.to(chat_<sessionId>).emit('user_typing')
Typing(c, id, isTyping) ==
    /\ Live(c)
    /\ out' = BroadcastOthers(c, ChatRoom(id),
                  Signal(c, "user_typing", id, IF isTyping THEN "typing" ELSE "idle"))
    /\ last' = [NoRequest EXCEPT !.op = IF isTyping THEN "typing_start"
                                                    ELSE "typing_stop",
                                 !.c = c, !.sid = id]
    /\ UNCHANGED browser
    /\ UNCHANGED admin
    /\ UNCHANGED <<now, sock, rooms, sanctuaries, hostSessions, nanoCount, msgCount,
                   joinsLeft, msgsLeft, task, grounds, appended>>

\* message_delivered / message_read:
\* socket.to(chat_<sessionId>).emit('message_status_update')
MessageStatus(c, id, status) ==
    /\ Live(c)
    /\ out' = BroadcastOthers(c, ChatRoom(id),
                  Signal(c, "message_status_update", id, status))
    /\ last' = [NoRequest EXCEPT !.op = "message_" \o status, !.c = c, !.sid = id]
    /\ UNCHANGED browser
    /\ UNCHANGED admin
    /\ UNCHANGED <<now, sock, rooms, sanctuaries, hostSessions, nanoCount, msgCount,
                   joinsLeft, msgsLeft, task, grounds, appended>>

\* raise_hand: socket.to(audio_room_<sessionId>).emit('hand_raised')
RaiseHand(c, id, isRaised) ==
    /\ Live(c)
    /\ out' = BroadcastOthers(c, AudioRoom(id),
                  Signal(c, "hand_raised", id, IF isRaised THEN "raised" ELSE "lowered"))
    /\ last' = [NoRequest EXCEPT !.op = "raise_hand", !.c = c, !.sid = id]
    /\ UNCHANGED browser
    /\ UNCHANGED admin
    /\ UNCHANGED <<now, sock, rooms, sanctuaries, hostSessions, nanoCount, msgCount,
                   joinsLeft, msgsLeft, task, grounds, appended>>

\* send_emoji_reaction: socket.to(audio_room_<sessionId>).emit('emoji_reaction')
SendEmojiReaction(c, id) ==
    /\ Live(c)
    /\ out' = BroadcastOthers(c, AudioRoom(id), Signal(c, "emoji_reaction", id, "emoji"))
    /\ last' = [NoRequest EXCEPT !.op = "send_emoji_reaction", !.c = c, !.sid = id]
    /\ UNCHANGED browser
    /\ UNCHANGED admin
    /\ UNCHANGED <<now, sock, rooms, sanctuaries, hostSessions, nanoCount, msgCount,
                   joinsLeft, msgsLeft, task, grounds, appended>>

\* emergency_alert: io.to(audio_room_<sessionId>).emit('emergency_alert')
EmergencyAlert(c, id) ==
    /\ Live(c)
    /\ out' = BroadcastAll(AudioRoom(id), Signal(c, "emergency_alert", id, "alert"))
    /\ last' = [NoRequest EXCEPT !.op = "emergency_alert", !.c = c, !.sid = id]
    /\ UNCHANGED browser
    /\ UNCHANGED admin
    /\ UNCHANGED <<now, sock, rooms, sanctuaries, hostSessions, nanoCount, msgCount,
                   joinsLeft, msgsLeft, task, grounds, appended>>

\* sanctuary_message_read: hostToken is destructured and never used; the receipt
\* names no sender
SanctuaryMessageRead(c, s, hostToken) ==
    /\ Live(c)
    /\ out' = BroadcastOthers(c, SanctuaryRoom(s),
                  [Event(c, "sanctuary_message_status", s) EXCEPT !.details = "read"])
    /\ last' = [NoRequest EXCEPT !.op = "sanctuary_message_read", !.c = c, !.sid = s,
                                 !.tok = hostToken]
    /\ UNCHANGED browser
    /\ UNCHANGED admin
    /\ UNCHANGED <<now, sock, rooms, sanctuaries, hostSessions, nanoCount, msgCount,
                   joinsLeft, msgsLeft, task, grounds, appended>>

\* ---------------------------------------------------------- specifications
\* what a client can put in hostToken: nothing, a string it made up, or a
\* token the server issued earlier
Presentable ==
    {NoToken} \cup ChosenTokens
    \cup {hostSessions[i].hostToken : i \in 1..Len(hostSessions)}

Environment ==
    \/ Tick
    \/ \E s \in SanctuaryDocs : EndSanctuary(s)
    \/ \E c \in Sockets, cred \in Credentials : Connect(c, cred)
    \/ \E c \in Sockets : Disconnect(c)

HostMint ==
    \/ \E c \in Sockets, s \in SanctuaryDocs, t \in Presentable : JoinHostStart(c, s, t)
    \/ \E c \in Sockets : JoinHostOwner(c)
    \/ \E c \in Sockets : JoinHostSave(c)
    \/ \E c \in Sockets : JoinHostAccess(c)

Submit ==
    \/ \E c \in Sockets, s \in SanctuaryIds : SanctuaryMessageStart(c, s)
    \/ \E c \in Sockets : SanctuaryMessageSave(c)
    \/ \E c \in Sockets : SanctuaryMessageBroadcast(c)

\* host session authority: the sanctuary may already hold a submission
NextHost ==
    \/ Environment
    \/ \E i \in 1..Len(hostSessions) : AdminRevoke(i)
    \/ HostMint
    \/ \E c \in Sockets : JoinHostSanctuary(c)

InitHost == \E subs \in {<<>>, <<Earlier>>} : Start(MaxJoinRequests, 0, subs)

SpecHost == InitHost /\ [][NextHost]_vars

\* submission persistence bridge, with host joins to populate the host channel
\* and participants of the sanctuary that exists
NextSubmit ==
    \/ Environment
    \/ \E c \in Sockets, s \in SanctuaryDocs : JoinSanctuary(c, s)
    \/ HostMint
    \/ Submit

InitSubmit == Start(MaxJoinRequests - 1, MaxMessages, <<>>)

SpecSubmit == InitSubmit /\ [][NextSubmit]_vars

InitRooms == Start(MaxJoinRequests - 1, MaxMessages - 1, <<>>)

\* the same bridge with one submission and a clock that stands still, where a
\* handler whose save has been answered is resumed: the event loop runs every
\* continuation that is ready
NextAnnounce ==
    \/ \E s \in SanctuaryDocs : EndSanctuary(s)
    \/ \E c \in Sockets, cred \in Credentials : Connect(c, cred)
    \/ \E c \in Sockets : Disconnect(c)
    \/ \E c \in Sockets, s \in SanctuaryDocs : JoinSanctuary(c, s)
    \/ HostMint
    \/ Submit

FairBroadcast == \A c \in Sockets : WF_vars(SanctuaryMessageBroadcast(c))

SpecAnnounce == InitRooms /\ [][NextAnnounce]_vars /\ FairBroadcast

\* room membership: join_sanctuary with any id a client may name
NextRooms ==
    \/ Environment
    \/ \E c \in Sockets, s \in SanctuaryIds : JoinSanctuary(c, s)
    \/ HostMint
    \/ Submit


SpecRooms == InitRooms /\ [][NextRooms]_vars

\* chat and audio rooms with the moderation action router
Moderation ==
    \/ \E c \in Sockets, sid \in AudioIds, pid \in ParticipantIds :
           PromoteToSpeaker(c, sid, pid)
    \/ \E c \in Sockets, sid \in AudioIds, pid \in ParticipantIds :
           MuteParticipant(c, sid, pid)
    \/ \E c \in Sockets, sid \in AudioIds, pid \in ParticipantIds :
           KickParticipant(c, sid, pid)
    \/ \E c \in Sockets, sid \in AudioIds, pid \in ParticipantIds :
           RequestVoiceChat(c, sid, pid)
    \/ \E c \in Sockets, sid \in AudioIds, pid \in ParticipantIds,
             accepted \in BOOLEAN : VoiceChatResponse(c, sid, pid, accepted)

NextAudio ==
    \/ \E c \in Sockets, cred \in Credentials : Connect(c, cred)
    \/ \E c \in Sockets : Disconnect(c)
    \/ \E c \in Sockets, id \in ChatIds : JoinChat(c, id)
    \/ \E c \in Sockets, id \in AudioIds : JoinAudioRoom(c, id)
    \/ Moderation

InitAudio == Start(0, 0, <<>>)

SpecAudio == InitAudio /\ [][NextAudio]_vars

\* chat rooms and their messages
NextChat ==
    \/ \E c \in Sockets, cred \in Credentials : Connect(c, cred)
    \/ \E c \in Sockets : Disconnect(c)
    \/ \E c \in Sockets, id \in ChatIds : JoinChat(c, id)
    \/ \E c \in Sockets, id \in ChatIds : SendMessage(c, id)

InitChat == Start(0, MaxMessages, <<>>)

SpecChat == InitChat /\ [][NextChat]_vars

\* host joins, submissions and the administrative clearing of isActive, with a
\* clock that stands still
NextRevoke ==
    \/ \E c \in Sockets, cred \in Credentials : Connect(c, cred)
    \/ \E c \in Sockets : Disconnect(c)
    \/ \E i \in 1..Len(hostSessions) : AdminRevoke(i)
    \/ HostMint
    \/ \E c \in Sockets : JoinHostSanctuary(c)
    \/ Submit

InitRevoke == Start(MaxJoinRequests, MaxMessages - 1, <<>>)

SpecRevoke == InitRevoke /\ [][NextRevoke]_vars

\* signals that clients relay to chat, audio and sanctuary rooms
Signals ==
    \/ \E c \in Sockets, id \in ChatIds, isTyping \in BOOLEAN : Typing(c, id, isTyping)
    \/ \E c \in Sockets, id \in ChatIds, status \in {"delivered", "read"} :
           MessageStatus(c, id, status)
    \/ \E c \in Sockets, id \in AudioIds, isRaised \in BOOLEAN : RaiseHand(c, id, isRaised)
    \/ \E c \in Sockets, id \in AudioIds : SendEmojiReaction(c, id)
    \/ \E c \in Sockets, id \in AudioIds : EmergencyAlert(c, id)
    \/ \E c \in Sockets, s \in SanctuaryDocs, t \in Presentable :
           SanctuaryMessageRead(c, s, t)

NextSignals ==
    \/ \E c \in Sockets, cred \in Credentials : Connect(c, cred)
    \/ \E c \in Sockets : Disconnect(c)
    \/ \E c \in Sockets, id \in ChatIds : JoinChat(c, id)
    \/ \E c \in Sockets, id \in AudioIds : JoinAudioRoom(c, id)
    \/ \E c \in Sockets, s \in SanctuaryDocs : JoinSanctuary(c, s)
    \/ \E c \in Sockets, id \in ChatIds : SendMessage(c, id)
    \/ Signals

InitSignals == Start(0, MaxMessages - 1, <<>>)

SpecSignals == InitSignals /\ [][NextSignals]_vars

\* the host's browser
NextBrowser ==
    \/ \E id \in SanctuaryIds, param \in HostTokens \cup {Null} :
           InitializeSession(id, param)
    \/ \E outcome \in Outcomes, belongsTo \in SanctuaryIds :
           VerifyHostToken(outcome, belongsTo)
    \/ RefreshSession
    \/ CloseTab
    \/ \E k \in StorageKeys : CookieExpires(k)

InitBrowser == Start(0, 0, <<>>)

SpecBrowser == InitBrowser /\ [][NextBrowser]_vars

\* the admin router
NextAdmin ==
    \/ Tick
    \/ \E a \in Admins, id \in ExpertIds, body \in Bodies : PatchExpertVerify(a, id, body)

InitAdmin == Start(0, 0, <<>>)

SpecAdmin == InitAdmin /\ [][NextAdmin]_vars

\* everything together
Next ==
    \/ NextHost
    \/ NextSubmit
    \/ NextRooms
    \/ NextAudio
    \/ NextChat
    \/ NextAnnounce
    \/ NextRevoke
    \/ NextSignals
    \/ NextBrowser
    \/ NextAdmin

Init == Start(MaxJoinRequests, MaxMessages, <<>>)

Spec == Init /\ [][Next]_vars

\* ------------------------------------------------------------- properties
HostChannel(s) == Members(SanctuaryHostRoom(s))

JoinDone == last.op = "join_sanctuary_host"

MessageDone == last.op = "sanctuary_message"

\* C1: a socket is in the host channel of S only if an earlier join_sanctuary_host
\* of that socket for S presented a token of an active, non-expired HostSession
\* of S, or came from the authenticated owner of S while S was active and not
\* expired; anonymous callers without such a token and authenticated non-owners
\* without such a token are never in it.
C1_HostChannelOnlyOnGrounds ==
    \A c \in Sockets, s \in SanctuaryIds :
        c \in HostChannel(s) => s \in grounds[c]

\* C2 (as claimed): whenever a join_sanctuary_host presents a token that an
\* active, non-expired HostSession of S carries, and that HostSession is still
\* active and not expired when the request ends, and no store write failed, the
\* request ends in sanctuary_host_joined with submissionsCount equal to the
\* current length of S's submissions, and the caller is in S's host channel.
C2_JoinedAsExpected ==
    /\ last.result = "joined"
    /\ last.c \in HostChannel(last.sid)
    /\ Live(last.c) =>
          /\ Len(out) = 1
          /\ out[1].ev = "sanctuary_host_joined"
          /\ out[1].to = last.c
          /\ out[1].sid = last.sid
          /\ out[1].count = Len(sanctuaries[last.sid].submissions)

C2_TokenCase ==
    /\ JoinDone
    /\ last.seen = "valid"
    /\ HasTokenGrounds(last.sid, last.tok)
    /\ last.result # StoreError

C3_ExpiredTokenNeverJoins ==
    (JoinDone /\ last.seen = "expired") =>
        /\ last.result # "joined"
        /\ Live(last.c) =>
              /\ Len(out) = 1
              /\ out[1].ev = "sanctuary_host_auth_failed"
              /\ out[1].to = last.c

C3_OwnerPresentsExpiredToken ==
    /\ JoinDone
    /\ last.seen = "expired"
    /\ sock[last.c].userId = Owner
    /\ Live(last.c)
    /\ out # <<>>

\* C4: once isActive of the HostSession for (S, T) is cleared, a
\* join_sanctuary_host(S, T) by any caller, the owner included, is not authorized
\* by T: it fails, or it ends joined with a different token; and no active
\* HostSession with token T exists for S afterwards.
C4_RevokedTokenHonoured ==
    (JoinDone /\ last.seen = "revoked") =>
        /\ last.result = "joined" => last.token # last.tok
        /\ ~\E i \in 1..Len(hostSessions) :
               /\ hostSessions[i].sanctuaryId = last.sid
               /\ hostSessions[i].hostToken = last.tok
               /\ hostSessions[i].isActive

C4_OwnerPresentsRevokedToken ==
    /\ JoinDone
    /\ last.seen = "revoked"
    /\ sock[last.c].userId = Owner
    /\ last.result = StoreError
    /\ SanctuaryLive(last.sid)

\* C6: for every pair (sanctuaryId, token) at most one HostSession that is active
\* and not expired exists, also when two owner requests that present the same
\* unregistered token interleave between their lookup and their save.
C6_OneActiveSessionPerToken ==
    \A i, j \in 1..Len(hostSessions) :
        (/\ hostSessions[i].sanctuaryId = hostSessions[j].sanctuaryId
         /\ hostSessions[i].hostToken = hostSessions[j].hostToken
         /\ hostSessions[i].isActive /\ hostSessions[i].expiresAt > now
         /\ hostSessions[j].isActive /\ hostSessions[j].expiresAt > now)
        => i = j

C6_SecondSaveRejected ==
    /\ JoinDone
    /\ last.tok \in ChosenTokens
    /\ last.seen = "none"
    /\ last.ownerOk
    /\ last.result = StoreError
    /\ HasTokenGrounds(last.sid, last.tok)

\* C5: when the authenticated owner of an active, non-expired sanctuary S sends
\* join_sanctuary_host(S) with no token and no store write fails, a HostSession
\* bound to the owner with S's expiresAt is stored, and the owner receives
\* sanctuary_host_joined with that session's non-empty token and submissionsCount
\* equal to the length of S's submission sequence.
C5_OwnerCase ==
    /\ JoinDone
    /\ last.tok = NoToken
    /\ last.ownerOk
    /\ last.result # StoreError

C5_OwnerMintsHostSession ==
    C5_OwnerCase =>
        /\ last.result = "joined"
        /\ last.token # NoToken
        /\ \E i \in 1..Len(hostSessions) :
              /\ hostSessions[i].sanctuaryId = last.sid
              /\ hostSessions[i].hostToken = last.token
              /\ hostSessions[i].hostId = sock[last.c].userId
              /\ hostSessions[i].expiresAt = sanctuaries[last.sid].expiresAt
        /\ Live(last.c) =>
              /\ Len(out) = 1
              /\ out[1].ev = "sanctuary_host_joined"
              /\ out[1].to = last.c
              /\ out[1].token = last.token
              /\ out[1].count = Len(sanctuaries[last.sid].submissions)

\* C7: every sanctuary_message whose save succeeded is in the durable submission
\* sequence exactly once, in the order of the saves, also when the two requests
\* overlap: nothing is lost and nothing is duplicated.
C7_BothSubmissionsKept ==
    \A s \in SanctuaryDocs : sanctuaries[s].submissions = appended

C7_SavedInReverseOfConstruction ==
    /\ Len(appended) = 2
    /\ appended[1].id > appended[2].id
    /\ appended[1].participantId # appended[2].participantId

\* C8: in every step the durable submission sequence of a sanctuary before the
\* step is a prefix of the sequence after it: it only grows at the end.
C8_AppendOnly ==
    [][\A s \in SanctuaryDocs :
          IsPrefix(sanctuaries[s].submissions, sanctuaries'[s].submissions)]_vars

C8_TwoKeptAfterEnd ==
    \E s \in SanctuaryDocs :
        /\ Len(sanctuaries[s].submissions) = 2
        /\ sanctuaries[s].submissions[1].id < sanctuaries[s].submissions[2].id
        /\ ~sanctuaries[s].isActive

\* C9: a sanctuary_message for a sanctuary that is missing, inactive or expired
\* when it is looked up emits exactly one event, a sanctuary_error to the sender,
\* and leaves every durable submission sequence unchanged.
C9_RejectedMessage ==
    [][(MessageDone' /\ ~last'.live) =>
          /\ out' = <<SanctuaryError(last'.c, NotFoundMsg)>>
          /\ sanctuaries' = sanctuaries
          /\ appended' = appended]_vars

C9_InactiveWithAudience ==
    /\ MessageDone
    /\ ~last.live
    /\ last.sid \in SanctuaryDocs
    /\ ~sanctuaries[last.sid].isActive
    /\ Len(sanctuaries[last.sid].submissions) = 1
    /\ \E d \in Members(SanctuaryRoom(last.sid)) \ {last.c} : Live(d)

\* C10: every sanctuary_new_message and sanctuary_new_submission event delivered
\* carries a submission that is in the sanctuary's durable sequence; when the save
\* fails nothing is broadcast and the only event is a sanctuary_error to the author.
C10_IsBroadcast(e) ==
    e.ev \in {"sanctuary_new_message", "sanctuary_new_submission"}

C10_BroadcastOnlyPersisted ==
    /\ \A k \in 1..Len(out) :
          C10_IsBroadcast(out[k]) =>
              /\ out[k].sid \in SanctuaryDocs
              /\ \E j \in 1..Len(sanctuaries[out[k].sid].submissions) :
                    sanctuaries[out[k].sid].submissions[j] = out[k].submission
    /\ (MessageDone /\ last.result = SendFailedMsg) =>
          /\ \A k \in 1..Len(out) : ~C10_IsBroadcast(out[k])
          /\ Live(last.c) =>
                out = <<SanctuaryError(last.c, SendFailedMsg)>>

C10_FailedSaveWithAudience ==
    /\ MessageDone
    /\ last.result = SendFailedMsg
    /\ Live(last.c)
    /\ \E d \in Members(SanctuaryRoom(last.sid)) : Live(d)
    /\ \E h \in HostChannel(last.sid) : Live(h)

\* the broadcast of submission number n has just been made: every connected
\* member of the public room was sent sanctuary_new_message carrying it and every
\* connected member of the host channel sanctuary_new_submission carrying it
Announced(n) ==
    /\ MessageDone
    /\ last.result = "saved"
    /\ last.msg.id = n
    /\ \A d \in Members(SanctuaryRoom(last.sid)) :
          Live(d) => \E k \in 1..Len(out) :
                        /\ out[k].to = d
                        /\ out[k].ev = "sanctuary_new_message"
                        /\ out[k].submission = last.msg
    /\ \A h \in HostChannel(last.sid) :
          Live(h) => \E k \in 1..Len(out) :
                        /\ out[k].to = h
                        /\ out[k].ev = "sanctuary_new_submission"
                        /\ out[k].submission = last.msg

\* C11: every submission that has been appended to the durable sequence and is
\* not yet announced is eventually broadcast, as sanctuary_new_message to the
\* connected members of the public room and as sanctuary_new_submission to the
\* connected members of the host channel.
C11_PersistedEventuallyBroadcast ==
    \A c \in Sockets, n \in 1..MaxMessages :
        (task[c].pc = "msg_saved" /\ task[c].msg.id = n) ~> Announced(n)

C11_SavedWithAudience ==
    /\ MessageDone
    /\ last.result = "saved"
    /\ \E d \in Members(SanctuaryRoom(last.sid)) : Live(d)
    /\ \E h \in HostChannel(last.sid) : Live(h)
    /\ Len(out) >= 2

\* C12: the totalSubmissions of every sanctuary_new_submission is the position of
\* its submission in the sanctuary's durable sequence, so no two submissions of a
\* sanctuary are announced with the same totalSubmissions.
C12_TotalIsPosition ==
    \A k \in 1..Len(out) :
        out[k].ev = "sanctuary_new_submission" =>
            /\ out[k].sid \in SanctuaryDocs
            /\ out[k].count \in 1..Len(sanctuaries[out[k].sid].submissions)
            /\ sanctuaries[out[k].sid].submissions[out[k].count] = out[k].submission

\* C13: every connection is a member of at most one chat room, at most one
\* public sanctuary room, at most one sanctuary-host channel and at most one audio
\* room: a join for a new room id takes it out of the room of that kind it was in.
C13_AtMostOneRoomPerKind ==
    \A c \in Sockets :
        /\ Cardinality({id \in ChatIds : c \in Members(ChatRoom(id))}) <= 1
        /\ Cardinality({id \in SanctuaryIds : c \in Members(SanctuaryRoom(id))}) <= 1
        /\ Cardinality({id \in SanctuaryIds : c \in HostChannel(id)}) <= 1
        /\ Cardinality({id \in AudioIds : c \in Members(AudioRoom(id))}) <= 1

\* the step in which connection c is torn down
Closes(c) == Live(c) /\ sock'[c].status = "closed"

\* how many events ev about the departing connection c that step sends to d
LeftCount(c, d, ev) ==
    Cardinality({k \in 1..Len(out') : /\ out'[k].to = d
                                      /\ out'[k].ev = ev
                                      /\ out'[k].from = sock[c].userId})

\* C14: when a connection that is in a chat room and in an audio room
\* disconnects, every remaining connected member of that chat room is sent exactly
\* one user_left for it, every remaining connected member of that audio room
\* exactly one audio_participant_left, and afterwards it is in no room.
C14_LeftChatAndAudio ==
    [][\A c \in Sockets :
          (/\ Closes(c)
           /\ \E id \in ChatIds : c \in Members(ChatRoom(id))
           /\ \E id \in AudioIds : c \in Members(AudioRoom(id)))
          => /\ \A id \in ChatIds : \A d \in Members(ChatRoom(id)) \ {c} :
                   (c \in Members(ChatRoom(id)) /\ Live(d))
                       => LeftCount(c, d, "user_left") = 1
             /\ \A id \in AudioIds : \A d \in Members(AudioRoom(id)) \ {c} :
                   (c \in Members(AudioRoom(id)) /\ Live(d))
                       => LeftCount(c, d, "audio_participant_left") = 1
             /\ \A r \in RoomNames : c \notin rooms'[r]]_vars

\* C15: when a connection disconnects, for every room of any of the four kinds
\* it is a member of, every other connected member of that room is sent a left
\* notification about it, the sanctuary-host channel included, and the connection
\* is removed from every room.
C15_LeftEveryRoom ==
    [][\A c \in Sockets :
          Closes(c) =>
              /\ \A r \in RoomNames : \A d \in Members(r) \ {c} :
                    (c \in Members(r) /\ Live(d)) =>
                        \E k \in 1..Len(out') : /\ out'[k].to = d
                                                /\ out'[k].from = sock[c].userId
              /\ \A r \in RoomNames : c \notin rooms'[r]]_vars

\* no connection with identity pid is a member of any room
InNoRoom(pid) ==
    \A d \in Sockets : sock[d].userId = pid => \A r \in RoomNames : d \notin Members(r)

\* C16: kick_participant(X) where X is a member of no room is a no-op, also when
\* X has a live connection: nothing is emitted to any connection and no room
\* membership changes.
C16_KickOfNonMemberIsNoOp ==
    [][(last'.op = "kick_participant" /\ InNoRoom(last'.target)) =>
          /\ out' = <<>>
          /\ rooms' = rooms]_vars

DirectedOps == {"promote_to_speaker", "mute_participant", "kick_participant",
                "request_voice_chat", "voice_chat_response"}

\* C17: a directed action whose target id is the identity of no connected socket
\* emits nothing to any connection, the actor included, and changes no state.
C17_UnresolvedTargetIsSilent ==
    [][(/\ last'.op \in DirectedOps
        /\ \A d \in Sockets : Live(d) => sock[d].userId # last'.target)
       => /\ out' = <<>>
          /\ UNCHANGED <<sock, rooms, sanctuaries, hostSessions, task>>]_vars

C17_TargetHasDisconnected ==
    /\ last.op = "promote_to_speaker"
    /\ last.found = NoId
    /\ \E d \in Sockets : sock[d].status = "closed" /\ sock[d].userId = last.target
    /\ last.c \in Members(AudioRoom(last.sid))
    /\ out = <<>>

DirectEv == [promote_to_speaker |-> "promoted_to_speaker",
             mute_participant |-> "force_muted",
             kick_participant |-> "kicked_from_room"]

RoomEv == [promote_to_speaker |-> "speaker_promoted",
           mute_participant |-> "participant_muted",
           kick_participant |-> "participant_kicked"]

\* C18: for promote_to_speaker, mute_participant and kick_participant whose
\* target resolves to a connected socket, that socket is sent exactly one direct
\* notification naming the actor, and every connected member of the audio room
\* named in the request, the actor included when it is a member, is sent the
\* room-wide notification of the action.
C18_TargetAndObserversNotified ==
    [][(last'.op \in DOMAIN DirectEv /\ last'.found # NoId) =>
          /\ Cardinality({k \in 1..Len(out') :
                             /\ out'[k].to = last'.found
                             /\ out'[k].ev = DirectEv[last'.op]
                             /\ out'[k].from = sock[last'.c].userId}) = 1
          /\ \A d \in rooms'[AudioRoom(last'.sid)] :
                Live(d) => \E k \in 1..Len(out') :
                              /\ out'[k].to = d
                              /\ out'[k].ev = RoomEv[last'.op]
                              /\ out'[k].participantId = last'.target]_vars

\* events that are broadcast to an audio room
AudioRoomEvs == {"audio_participant_joined", "audio_participant_left",
                 "speaker_promoted", "participant_muted", "participant_kicked"}

\* C19: the step of a kick_participant(sessionId, X) that resolves X removes the
\* target socket from audio room sessionId; no step delivers an audio-room
\* broadcast to a socket that is not a member of that room after the step; and a
\* socket becomes a member of an audio room only by its own join_audio_room.
C19_KickedIsOut ==
    [][/\ (last'.op = "kick_participant" /\ last'.found # NoId) =>
              last'.found \notin rooms'[AudioRoom(last'.sid)]
       /\ \A k \in 1..Len(out') :
              (out'[k].ev \in AudioRoomEvs /\ out'[k].sid \in AudioIds) =>
                  out'[k].to \in rooms'[AudioRoom(out'[k].sid)]
       /\ \A d \in Sockets, id \in AudioIds :
              (d \notin Members(AudioRoom(id)) /\ d \in rooms'[AudioRoom(id)]) =>
                  (last'.op = "join_audio_room" /\ last'.c = d /\ last'.sid = id)
      ]_vars

C19_MemberWasKicked ==
    /\ last.op = "kick_participant"
    /\ last.found # NoId
    /\ last.found # last.c
    /\ sock[last.found].currentAudioRoom = last.sid
    /\ last.found \notin Members(AudioRoom(last.sid))
    /\ last.c \in Members(AudioRoom(last.sid))
    /\ Len(out) = 1

\* C20: a connection attempt without credential is always accepted, as an
\* anonymous connection whose identity differs from the identity of every other
\* connection alive at that moment.
C20_AnonymousAlwaysAccepted ==
    [][\A c \in Sockets :
          Connect(c, NoCred) =>
              /\ sock'[c].status = "live"
              /\ sock'[c].isAnonymous
              /\ \A d \in Sockets \ {c} :
                    sock'[d].status = "live" => sock'[d].userId # sock'[c].userId]_vars

C20_TwoAnonymousAlive ==
    \E c, d \in Sockets :
        /\ c # d
        /\ Live(c) /\ sock[c].isAnonymous
        /\ Live(d) /\ sock[d].isAnonymous

\* C21: a connection attempt whose credential fails verification or names no
\* user is rejected and changes no room membership; a rejected connection stays
\* rejected, is in no room, has no handler running and no request handled.
C21_BadCredentialRejected ==
    [][\A c \in Sockets :
          /\ Connect(c, BadCred) =>
                (sock'[c].status = "rejected" /\ rooms' = rooms /\ out' = <<>>)
          /\ sock[c].status = "rejected" =>
                /\ sock'[c] = sock[c]
                /\ \A r \in RoomNames : c \notin rooms'[r]
                /\ task'[c] = IdleTask
                /\ last'.c # c]_vars

C21_RejectedBesideMember ==
    \E c, d \in Sockets :
        /\ sock[c].status = "rejected"
        /\ Live(d)
        /\ \E id \in ChatIds : d \in Members(ChatRoom(id))
        /\ \E id \in AudioIds : d \in Members(AudioRoom(id))

\* C22: while a connection is connected, no step changes its user id or its
\* anonymous flag.
C22_IdentityImmutable ==
    [][\A c \in Sockets :
          Live(c) => /\ sock'[c].userId = sock[c].userId
                     /\ sock'[c].isAnonymous = sock[c].isAnonymous]_vars

C22_OwnerJoinedBoth ==
    \E c \in Sockets :
        /\ Live(c)
        /\ sock[c].userId = Owner
        /\ c \in HostChannel("s1")
        /\ c \in Members(SanctuaryRoom("s1"))
        /\ sock[c].hostToken # NoToken

\* C23: when a join_sanctuary_host fails, the requester, if still connected, is
\* sent exactly one event, a sanctuary_host_auth_failed with the sanctuary id and
\* the reason; no room membership and no connection changes in that step, so the
\* requester is not added to the host channel and keeps its rooms.
C23_FailedJoinKeepsRooms ==
    [][(last'.op = "join_sanctuary_host" /\ last'.result # "joined") =>
          /\ rooms' = rooms
          /\ sock' = sock
          /\ Live(last'.c) =>
                /\ Len(out') = 1
                /\ out'[1].to = last'.c
                /\ out'[1].ev = "sanctuary_host_auth_failed"
                /\ out'[1].sid = last'.sid
                /\ out'[1].details = last'.result
                /\ out'[1].details # ""]_vars

C23_FailedWhileInRoom ==
    /\ JoinDone
    /\ last.result = AuthFailedMsg
    /\ Live(last.c)
    /\ last.c \in Members(SanctuaryRoom(last.sid))
    /\ ~sock[last.c].isAnonymous
    /\ Len(out) = 1

ErrorEvs == {"sanctuary_host_auth_failed", "sanctuary_error"}

RequestFailed(r) ==
    \/ r.op = "join_sanctuary_host" /\ r.result # "joined"
    \/ r.op = "sanctuary_message" /\ r.result # "saved"

\* C24: a step that emits sanctuary_host_auth_failed or sanctuary_error is the
\* end of a failed request and emits that one event alone, to the requester; a
\* step that ends a failed request sends nothing to any other connection and
\* disconnects nobody.
C24_ErrorOnlyToRequester ==
    [][/\ \A k \in DOMAIN out' :
             out'[k].ev \in ErrorEvs =>
                 /\ RequestFailed(last')
                 /\ out'[k].to = last'.c
                 /\ Len(out') = 1
       /\ RequestFailed(last') =>
             /\ \A k \in DOMAIN out' : out'[k].to = last'.c
             /\ \A d \in Sockets : sock'[d].status = sock[d].status]_vars

C24_FailedBesideMembers ==
    /\ JoinDone
    /\ last.result = AuthFailedMsg
    /\ Live(last.c)
    /\ Len(out) = 1
    /\ \E d \in Sockets \ {last.c} :
          /\ Live(d)
          /\ d \in Members(SanctuaryRoom(last.sid))
    /\ Len(sanctuaries[last.sid].submissions) > 0

\* C26: token-less join_sanctuary_host requests of the owner of S create at most
\* one HostSession bound to (S, owner): among the stored HostSessions whose token
\* the server generated, at most one is bound to S and its owner.
C26_AtMostOneMintPerOwner ==
    \A s \in SanctuaryDocs :
        Cardinality({i \in 1..Len(hostSessions) :
                        /\ hostSessions[i].sanctuaryId = s
                        /\ hostSessions[i].hostId = sanctuaries[s].hostId
                        /\ \E k \in 1..nanoCount :
                              hostSessions[i].hostToken = NanoOrder[k]}) <= 1

\* C27: every stored HostSession carries a token the server generated; none
\* carries a value the caller chose.
C27_TokensServerGenerated ==
    \A i \in 1..Len(hostSessions) :
        \E k \in 1..nanoCount : hostSessions[i].hostToken = NanoOrder[k]

\* C29: a join_sanctuary_host that ends in sanctuary_host_auth_failed has
\* created no HostSession and changed no last-access timestamp.
C29_FailedJoinWroteNothing ==
    (JoinDone /\ last.result # "joined") => ~last.wrote

\* the events of es addressed to connection d
RECURSIVE EventsTo(_, _)
EventsTo(es, d) ==
    IF es = <<>> THEN <<>>
    ELSE (IF Head(es).to = d THEN <<Head(es)>> ELSE <<>>) \o EventsTo(Tail(es), d)

\* C25: each send_message is handed to its chat room in the step that processes
\* it, before any later message is processed: that step delivers new_message,
\* carrying the message, exactly once to every connected member of the room, the
\* sender included when it is a member, and to nobody else; messages are numbered
\* in the order of processing, and the events in flight never carry an earlier
\* message than the one processed last.
C25_ChatDeliveredInProcessingOrder ==
    /\ [][last'.op = "send_message" =>
            /\ last'.msg.id = msgCount + 1
            /\ msgCount' = msgCount + 1
            /\ rooms' = rooms
            /\ \A d \in Sockets :
                  IF d \in Members(ChatRoom(last'.sid)) /\ Live(d)
                  THEN /\ Len(EventsTo(out', d)) = 1
                       /\ EventsTo(out', d)[1].ev = "new_message"
                       /\ EventsTo(out', d)[1].sid = last'.sid
                       /\ EventsTo(out', d)[1].submission = last'.msg
                  ELSE EventsTo(out', d) = <<>>]_vars
    /\ [](\A k \in DOMAIN out :
             out[k].ev = "new_message" => out[k].submission.id = msgCount)

C25_SecondMessageToBoth ==
    /\ last.op = "send_message"
    /\ last.msg.id = 2
    /\ Live(last.c)
    /\ last.c \in Members(ChatRoom(last.sid))
    /\ \E d \in Sockets \ {last.c} : Live(d) /\ d \in Members(ChatRoom(last.sid))
    /\ Len(out) = 2

\* C30: the broadcasts of a sanctuary's submissions are made in the order of
\* the durable sequence: when the broadcast of a submission is made, every
\* submission that follows it in the durable sequence is still unannounced, so
\* no member is sent a later submission before an earlier one.
C30_AnnouncedInDurableOrder ==
    (MessageDone /\ last.result = "saved") =>
        \A i, j \in 1..Len(appended) :
            (appended[i] = last.msg /\ i < j) =>
                \E c \in Sockets : /\ task[c].pc = "msg_saved"
                                    /\ task[c].msg = appended[j]

\* the step in which initializeSession ends after the token was verified and
\* storeHostToken ran to its end
Verified ==
    /\ hook.pc = "verifying"
    /\ hook'.pc = "settled"
    /\ hook'.hostSession # NoHostSession
    /\ hook'.quota = "none"

\* C28: after a successful verification the token is the item under the
\* sanctuary's key in localStorage and in sessionStorage and the value of the
\* sanctuary's cookie, and getHostToken without a hostToken URL parameter and
\* getTokenFromCookie both return that token; after a failed verification none
\* of the three holds anything under the sanctuary's key.
C28_StoredTokenReadsBack ==
    [][/\ Verified =>
            /\ localStorage'[StorageKey(hook.sanctuaryId)] = hook.token
            /\ sessionStorage'[StorageKey(hook.sanctuaryId)] = hook.token
            /\ cookies'[StorageKey(hook.sanctuaryId)].present
            /\ GetHostToken(hook.sanctuaryId, Null)' = hook.token
            /\ GetTokenFromCookie(hook.sanctuaryId)' = [threw |-> FALSE, token |-> hook.token]
       /\ (hook.pc = "verifying" /\ hook'.pc = "settled" /\ hook'.hostSession = NoHostSession) =>
            /\ localStorage'[StorageKey(hook.sanctuaryId)] = Null
            /\ sessionStorage'[StorageKey(hook.sanctuaryId)] = Null
            /\ ~cookies'[StorageKey(hook.sanctuaryId)].present]_vars

\* C31: after a kick_participant(sessionId, X) that resolves X, no connected
\* socket with identity X is a member of audio room sessionId; a promote, mute or
\* kick of X resolves to a socket of X that is a member of the room whenever X has
\* a connected socket in it.
C31_EveryConnectionOfTargetReached ==
    [][(last'.op \in DOMAIN DirectEv /\ last'.found # NoId) =>
          /\ last'.op = "kick_participant" =>
                \A d \in Sockets :
                    (Live(d) /\ sock[d].userId = last'.target) =>
                        d \notin rooms'[AudioRoom(last'.sid)]
          /\ (\E d \in Members(AudioRoom(last'.sid)) :
                  Live(d) /\ sock[d].userId = last'.target) =>
                last'.found \in Members(AudioRoom(last'.sid))]_vars


\* C32: a promote_to_speaker, mute_participant or kick_participant sent by a
\* connection that is not a member of the audio room it names emits nothing and
\* changes no room membership (the weakest reading of "joined the room as host or
\* moderator": the handlers keep no role, so membership is all a role could rest
\* on).
C32_OnlyRoomMembersModerate ==
    [][(/\ last'.op \in DOMAIN DirectEv
        /\ last'.c \notin Members(AudioRoom(last'.sid)))
       => /\ out' = <<>>
          /\ rooms' = rooms]_vars

\* C33: the current-audio-room reference of a connected socket names a room the
\* socket is a member of, and the step that closes a connection sends
\* audio_participant_left about it only to rooms it was a member of when it
\* disconnected.
C33_RoomReferencesAreCurrent ==
    [][\A c \in Sockets :
          /\ (sock'[c].status = "live" /\ sock'[c].currentAudioRoom # NoId) =>
                c \in rooms'[AudioRoom(sock'[c].currentAudioRoom)]
          /\ Closes(c) =>
                \A k \in 1..Len(out') :
                    (/\ out'[k].ev = "audio_participant_left"
                     /\ out'[k].from = sock[c].userId) =>
                        c \in Members(AudioRoom(out'[k].sid))]_vars


\* requests that relay a signal to a chat room or to an audio room
ChatSignalOps == {"send_message", "typing_start", "typing_stop",
                  "message_delivered", "message_read"}

AudioSignalOps == {"raise_hand", "send_emoji_reaction", "emergency_alert"}

SignalRoom(r) == IF r.op \in AudioSignalOps THEN AudioRoom(r.sid) ELSE ChatRoom(r.sid)

\* C35: a step of send_message, typing_start, typing_stop, message_delivered,
\* message_read, raise_hand, send_emoji_reaction or emergency_alert delivers an
\* event to members of the room it names only if the sending connection is a
\* member of that room.
C35_OnlyMembersSignal ==
    [][(last'.op \in ChatSignalOps \cup AudioSignalOps /\ out' # <<>>) =>
          last'.c \in Members(SignalRoom(last'))]_vars

\* C36: a step of sanctuary_message_read delivers a read receipt only if the
\* sender is in the host channel of the sanctuary or presented the token of an
\* active, non-expired HostSession of it.
C36_ReadReceiptOnlyFromHost ==
    [][(last'.op = "sanctuary_message_read" /\ out' # <<>>) =>
          \/ last'.c \in HostChannel(last'.sid)
          \/ \E i \in 1..Len(hostSessions) :
                 HostSessionMatch(last'.tok, last'.sid, i)]_vars


\* the HostSession through which connection c entered the host channel of s is
\* still active and not expired
EntrySessionValid(c, s) ==
    \E i \in 1..Len(hostSessions) : HostSessionMatch(sock[c].hostToken, s, i)

\* C34 (as claimed): sanctuary_new_submission for S is delivered to a connection
\* only while the HostSession through which it entered S's host channel is active
\* and not expired.
C34_ReceivesOnlyWhileSessionActive ==
    [][\A k \in 1..Len(out') :
          out'[k].ev = "sanctuary_new_submission" =>
              EntrySessionValid(out'[k].to, out'[k].sid)]_vars

\* C34 (amended): sanctuary_new_submission for S is delivered to exactly the
\* connected members of S's host channel at the time of the broadcast, whatever
\* the state of their HostSession; a step that clears isActive of a HostSession
\* changes no room membership, and a connection leaves a host channel only by
\* disconnecting.
C34_ReceivesWhileInHostChannel ==
    [][/\ \A k \in 1..Len(out') :
             out'[k].ev = "sanctuary_new_submission" =>
                 /\ out'[k].to \in HostChannel(out'[k].sid)
                 /\ Live(out'[k].to)
       /\ (MessageDone' /\ last'.result = "saved") =>
             \A d \in HostChannel(last'.sid) :
                 Live(d) => \E k \in 1..Len(out') :
                               /\ out'[k].to = d
                               /\ out'[k].ev = "sanctuary_new_submission"
                               /\ out'[k].sid = last'.sid
       /\ (\E i \in 1..Len(hostSessions) :
               hostSessions[i].isActive /\ ~hostSessions'[i].isActive) =>
             rooms' = rooms
       /\ \A c \in Sockets, s \in SanctuaryIds :
             (c \in HostChannel(s) /\ c \notin rooms'[SanctuaryHostRoom(s)]) =>
                 Closes(c)]_vars

C34_RevokedHostStillReceives ==
    \E k \in 1..Len(out) :
        /\ out[k].ev = "sanctuary_new_submission"
        /\ out[k].to \in HostChannel(out[k].sid)
        /\ ~EntrySessionValid(out[k].to, out[k].sid)
        /\ \E i \in 1..Len(hostSessions) :
              /\ hostSessions[i].hostToken = sock[out[k].to].hostToken
              /\ hostSessions[i].sanctuaryId = out[k].sid
              /\ ~hostSessions[i].isActive


\* the step is a run of initializeSession up to the verification request
Initializes == hook'.mounts = hook.mounts + 1

\* what the first non-empty of the four sources holds for the sanctuary the hook
\* is mounted for: URL parameter, localStorage, sessionStorage, cookie
TokenByPriority ==
    LET k == StorageKey(hook'.sanctuaryId)
    IN  IF url' # Null THEN url'
        ELSE IF localStorage[k] # Null THEN localStorage[k]
        ELSE IF sessionStorage[k] # Null THEN sessionStorage[k]
        ELSE IF cookies[k].present THEN cookies[k].value
        ELSE Null

\* C37: initializeSession sends for verification the token of the first of URL
\* parameter, localStorage, sessionStorage and cookie that holds one; when none
\* does, no request is sent, the error is set, hostSession stays null and
\* isValidating becomes false.
C37_TokenChosenByPriority ==
    [][Initializes =>
          IF TokenByPriority # Null
          THEN /\ hook'.pc = "verifying"
               /\ hook'.token = TokenByPriority
          ELSE /\ hook'.pc = "settled"
               /\ hook'.error # ""
               /\ hook'.hostSession = NoHostSession
               /\ ~hook'.isValidating]_vars


\* C38: whenever the hook reports isHost, the hostSession it holds is a session
\* of the sanctuary the hook was invoked with.
C38_HostOfThisSanctuary ==
    IsHost => hook.hostSession.sanctuaryId = hook.sanctuaryId

\* the step in which a verification request ends
Answered == hook.pc \in {"verifying", "refreshing"} /\ hook'.pc = "settled"

\* C39: the hook never reports isHost together with an error; a refresh whose
\* verification fails leaves hostSession null; and a verification request that
\* failed in transport removes no stored token.
C39_HostOnlyWhileVerified ==
    [][/\ IsHost' => hook'.error = ""
       /\ (Answered /\ hook.pc = "refreshing" /\ hook'.error # "") =>
             hook'.hostSession = NoHostSession
       /\ (Answered /\ hook'.error = ErrorOf["transport"]) =>
             UNCHANGED <<localStorage, sessionStorage, cookies>>]_vars


\* the step answers a verification request for an existing expert with success
VerifiedExpert == http' # http /\ http'.code = 200

\* C40: after a PATCH /experts/:id/verify that succeeds, the expert carries the
\* supplied feedback, the acting admin as verifiedBy, a verifiedAt exactly when
\* the status is 'approved', and on every verification document the reviewer and
\* the review time; and the request was answered by the handler that records
\* these.
C40_EnhancedVerificationRecorded ==
    [][VerifiedExpert =>
          LET expert == experts'[http'.id]
          IN  /\ expert.verificationFeedback = http'.body.feedback
              /\ expert.verifiedBy = http'.admin
              /\ (expert.verifiedAt # NoTime) <=> (http'.body.status = "approved")
              /\ \A k \in DOMAIN expert.verificationDocuments :
                    /\ expert.verificationDocuments[k].reviewedBy = http'.admin
                    /\ expert.verificationDocuments[k].reviewedAt = now
              /\ http'.handler = "verifyEnhanced"]_vars

====
